---- MODULE Spec2Model ----
(***************************************************************************)
(* Model of cargo-alloc-profile: the interception layer (allocator.rs),    *)
(* the profiler state (profiler.rs) and the symbol resolver.               *)
(*                                                                         *)
(* Every thread runs a call stack of frames; each action is one step of    *)
(* one thread between two accesses to shared memory (an atomic, the table  *)
(* mutex) together with the thread-local code around it.                   *)
(***************************************************************************)
EXTENDS Integers, Sequences, FiniteSets, TLC

(* ------------------------------ bounds --------------------------------- *)

\* Number of host threads.
NThreads == 2
\* Number of top-level allocate/deallocate/resize/snapshot calls in a run.
MaxCalls == 2
\* Largest size of a request.
MaxSize == 2
\* Width of usize in the model (the program's is 64).
WordBits == 4

Threads == 1..NThreads
Sizes == 1..MaxSize
Modulus == 2^WordBits

(* ------------------------------ strings -------------------------------- *)
\* A string is a sequence of one-character strings.

RECURSIVE Concat(_)
\* The concatenation of a sequence of strings.
Concat(ss) == IF ss = <<>> THEN <<>> ELSE Head(ss) \o Concat(Tail(ss))

\* Whether pat occurs in s at position i (1-based).
MatchesAt(s, pat, i) ==
    /\ i >= 1
    /\ i + Len(pat) - 1 <= Len(s)
    /\ \A k \in 1..Len(pat) : s[i + k - 1] = pat[k]

\* str::contains
Contains(s, pat) == \E i \in 1..(Len(s) + 1) : MatchesAt(s, pat, i)

\* str::rfind, 0 when there is no match, else the 1-based position.
RFind(s, pat) ==
    LET hits == {i \in 1..(Len(s) + 1) : MatchesAt(s, pat, i)}
    IN  IF hits = {} THEN 0 ELSE CHOOSE i \in hits : \A j \in hits : j <= i

\* str::replace of a one-character pattern.
ReplaceChar(s, from, to) == [i \in 1..Len(s) |-> IF s[i] = from THEN to ELSE s[i]]

RECURSIVE Join(_, _)
\* [String]::join(sep)
Join(ss, sep) ==
    IF ss = <<>> THEN <<>>
    ELSE IF Len(ss) = 1 THEN ss[1]
    ELSE ss[1] \o sep \o Join(Tail(ss), sep)

DigitChars == <<"0", "1", "2", "3", "4", "5", "6", "7", "8", "9">>

RECURSIVE Decimal(_)
\* The decimal rendering of a number, as format!("{}") gives it.
Decimal(n) ==
    IF n < 10 THEN <<DigitChars[n + 1]>>
    ELSE Decimal(n \div 10) \o <<DigitChars[(n % 10) + 1]>>

HexDigitChars ==
    {"0", "1", "2", "3", "4", "5", "6", "7", "8", "9",
     "a", "b", "c", "d", "e", "f", "A", "B", "C", "D", "E", "F"}

\* char::is_ascii_hexdigit
is_ascii_hexdigit(c) == c \in HexDigitChars

(* -------------------------- symbol resolver ---------------------------- *)

\* The markers of the frames extract_frames skips.
MarkerAlloc == <<"a", "l", "l", "o", "c", ":", ":">>
MarkerProfilingAllocator ==
    <<"P", "r", "o", "f", "i", "l", "i", "n", "g", "A", "l", "l", "o", "c", "a", "t", "o", "r">>
MarkerAllocationProfiler ==
    <<"A", "l", "l", "o", "c", "a", "t", "i", "o", "n", "P", "r", "o", "f", "i", "l", "e", "r">>
MarkerBacktrace == <<"b", "a", "c", "k", "t", "r", "a", "c", "e", ":", ":">>

\* The frame cap of extract_frames.
MaxFrames == 10

\* The condition of the skip branch of extract_frames.
IsInternalName(name_str) ==
    \/ Contains(name_str, MarkerAlloc)
    \/ Contains(name_str, MarkerProfilingAllocator)
    \/ Contains(name_str, MarkerAllocationProfiler)
    \/ Contains(name_str, MarkerBacktrace)

\* The single angle quotation marks U+2039 and U+203A, one character each.
LSaquo == "U+2039"
RSaquo == "U+203A"

\* clean_symbol_name: drop a "::h<hex>" suffix, replace the angle brackets.
clean_symbol_name(name) ==
    LET pos == RFind(name, <<":", ":", "h">>)
        rest == IF pos = 0 THEN <<>> ELSE SubSeq(name, pos + 3, Len(name))
        stripped ==
            IF pos # 0 /\ \A k \in 1..Len(rest) : is_ascii_hexdigit(rest[k])
            THEN SubSeq(name, 1, pos - 1)
            ELSE name
    IN  ReplaceChar(ReplaceChar(stripped, "<", LSaquo), ">", RSaquo)

\* A resolved symbol: an optional name, an optional file name and line.
Sym(name) == [has_name |-> TRUE, name |-> name, has_loc |-> FALSE, file |-> <<>>, line |-> 0]
SymAt(name, file, line) ==
    [has_name |-> TRUE, name |-> name, has_loc |-> TRUE, file |-> file, line |-> line]
SymNoName == [has_name |-> FALSE, name |-> <<>>, has_loc |-> FALSE, file |-> <<>>, line |-> 0]

\* The location string extract_frames pushes for a kept symbol.
Location(symbol) ==
    LET clean_name == clean_symbol_name(symbol.name)
    IN  IF symbol.has_loc
        THEN clean_name \o <<" ", "(">> \o symbol.file \o <<":">>
                 \o Decimal(symbol.line) \o <<")">>
        ELSE clean_name

RECURSIVE ExtractSymbolsUncapped(_, _, _)
\* The loop of extract_frames as it would be without the limit on frames.len().
ExtractSymbolsUncapped(symbols, frames, skip_frames) ==
    IF symbols = <<>> THEN frames
    ELSE LET symbol == Head(symbols)
         IN  IF ~symbol.has_name
             THEN ExtractSymbolsUncapped(Tail(symbols), frames, skip_frames)
             ELSE IF IsInternalName(symbol.name)
             THEN ExtractSymbolsUncapped(Tail(symbols), frames, skip_frames + 1)
             ELSE IF skip_frames > 0
             THEN ExtractSymbolsUncapped(Tail(symbols), Append(frames, Location(symbol)),
                                         skip_frames)
             ELSE ExtractSymbolsUncapped(Tail(symbols), frames, skip_frames)

RECURSIVE ExtractSymbols(_, _, _)
\* The loop body of extract_frames over the symbols of all frames in order:
\* frames is the list built so far, skip_frames the number of skipped symbols.
ExtractSymbols(symbols, frames, skip_frames) ==
    IF symbols = <<>> THEN frames
    ELSE LET symbol == Head(symbols)
         IN  IF ~symbol.has_name
             THEN ExtractSymbols(Tail(symbols), frames, skip_frames)
             ELSE IF IsInternalName(symbol.name)
             THEN ExtractSymbols(Tail(symbols), frames, skip_frames + 1)
             ELSE IF skip_frames > 0 /\ Len(frames) < MaxFrames
             THEN ExtractSymbols(Tail(symbols), Append(frames, Location(symbol)),
                                 skip_frames)
             ELSE ExtractSymbols(Tail(symbols), frames, skip_frames)

\* extract_frames: a backtrace is a sequence of frames, a frame a sequence
\* of symbols.
extract_frames(backtrace) == ExtractSymbols(Concat(backtrace), <<>>, 0)

\* The key of the site table: frames.join("\n").
SiteKey(frames) == Join(frames, <<"\n">>)

(* ---------------------------- raw stacks ------------------------------- *)

NameCapture == <<"b", "a", "c", "k", "t", "r", "a", "c", "e", ":", ":", "n">>
NameAllocHook == MarkerProfilingAllocator
NameMain == <<"m">>
NameWork == <<"w", ":", ":", "h", "1", "f">>
NameRecurse == <<"r">>
\* The depth of the recursion the host program is in when it calls work.
RecursionDepth == 10
FileX == <<"x">>

\* An unresolved backtrace is a list of addresses only; the model names it by
\* the place of the host program where it was captured.
Backtraces == {"main", "work", "stripped"}

\* Backtrace::resolve: the frames of a captured backtrace, innermost first,
\* each frame with its symbols.
resolve(backtrace) ==
    CASE backtrace = "main" ->
             \* captured in main
             << <<Sym(NameCapture)>>, <<Sym(NameAllocHook)>>,
                <<SymAt(NameMain, FileX, 7)>> >>
      [] backtrace = "work" ->
             \* captured in a function called at the bottom of a recursion
             << <<Sym(NameCapture)>>, <<Sym(NameAllocHook)>>, <<Sym(NameWork)>> >>
                 \o [i \in 1..RecursionDepth |-> <<Sym(NameRecurse)>>]
                 \o << <<SymAt(NameMain, FileX, 7)>> >>
      [] OTHER ->
             \* no symbol of the binary has a name (a stripped binary)
             << <<SymNoName>>, <<SymNoName>> >>

(* ------------------------------- state --------------------------------- *)

VARIABLES
    PROFILING_ACTIVE,       \* profiler.rs: the global enabled flag
    IN_ALLOCATOR,           \* allocator.rs: the thread-local flag of each thread
    IN_PROFILER,            \* profiler.rs: the thread-local flag of each thread
    total_allocations,      \* PROFILER's atomics
    total_deallocations,
    total_bytes_allocated,
    peak_memory,
    current_memory,
    allocation_sites,       \* the table: a function from keys to sites
    table_lock,             \* the thread holding the table mutex, 0 when free
    stack,                  \* the call stack of each thread, innermost frame last
    returned,               \* what the step just taken returned from the allocator
    snapshot,               \* the last ProfileSnapshot get_snapshot returned
    calls,                  \* the number of calls the host program has made
    panicked,               \* an arithmetic overflow check failed (debug build)
    phase,                  \* main.rs: how far the cargo subcommand has come
    options,                \* reporter.rs: the ReportOptions of the run
    files,                  \* the file system: the contents of each path
    output,                 \* what the reporter has printed and done, in order
    prepared,               \* what prepare_sites returned to the reporter
    raw_stack,              \* the resolved backtrace given to extract_frames
    kept_frames             \* the frame list extract_frames returned for it

counters ==
    <<total_allocations, total_deallocations, total_bytes_allocated,
      peak_memory, current_memory>>

\* The state of the profiled process and the state of the cargo subcommand.
profiler_vars ==
    <<PROFILING_ACTIVE, IN_ALLOCATOR, IN_PROFILER, total_allocations,
      total_deallocations, total_bytes_allocated, peak_memory, current_memory,
      allocation_sites, table_lock, stack, returned, calls, panicked>>
report_vars == <<phase, options, files, output, prepared>>
\* The input and the result of a call of extract_frames on its own.
resolver_vars == <<raw_stack, kept_frames>>

vars == <<profiler_vars, snapshot, report_vars, resolver_vars>>

\* The results of the system allocator.
NullPtr == "null"
Ptr == "ptr"

\* fetch_add as it would be on a counter one bit wide.
wrapping_add_one_bit(a, b) == (a + b) % 2

\* AtomicUsize::fetch_add and fetch_sub wrap around.
wrapping_add(a, b) == (a + b) % Modulus
wrapping_sub(a, b) == (a - b + Modulus) % Modulus

NoSnapshot ==
    [taken |-> FALSE, total_allocations |-> 0, total_deallocations |-> 0,
     total_bytes_allocated |-> 0, peak_memory |-> 0, current_memory |-> 0,
     allocation_sites |-> <<>>]

NoReturn ==
    [thread |-> 0, op |-> "none", provided |-> "none", result |-> "none", forwards |-> 0,
     counted_dealloc |-> FALSE, counted_alloc |-> FALSE]

\* The paths of the run: the file CARGO_ALLOC_PROFILE_OUTPUT names, the file
\* the --compare option names and the file the --save option names.
Paths == {"out", "base", "saved"}
\* A path no file is at.
NoFile == <<"absent">>

\* Option<T>: None, and Some(x) with its value Unwrap(Some(x)).
None == <<>>
Some(x) == <<x>>
Unwrap(option) == option[1]

\* impl Default for ReportOptions.
DefaultOptions ==
    [verbosity |-> 0, filter |-> None, format |-> "Text", min_count |-> None,
     threshold_bytes |-> None, sort_by |-> "Count", limit |-> None, save |-> None,
     compare |-> None, group_by |-> "Function"]

\* prepare_sites has not been called.
NotPrepared == [done |-> FALSE, sites |-> <<>>]

\* The cargo subcommand before it has done anything.
InitReport ==
    /\ phase = "target"
    /\ options = DefaultOptions
    /\ files = [p \in Paths |-> NoFile]
    /\ output = <<>>
    /\ prepared = NotPrepared

\* No call of extract_frames on its own has been made.
NotExtracted == [done |-> FALSE, frames |-> <<>>]
InitResolver ==
    /\ raw_stack = <<>>
    /\ kept_frames = NotExtracted

\* PROFILER's Lazy initialiser, PROFILING_ACTIVE and the thread-locals.
InitProfiler ==
    /\ PROFILING_ACTIVE = FALSE
    /\ IN_ALLOCATOR = [t \in Threads |-> FALSE]
    /\ IN_PROFILER = [t \in Threads |-> FALSE]
    /\ total_allocations = 0
    /\ total_deallocations = 0
    /\ total_bytes_allocated = 0
    /\ peak_memory = 0
    /\ current_memory = 0
    /\ allocation_sites = <<>>
    /\ table_lock = 0
    /\ stack = [t \in Threads |-> <<>>]
    /\ returned = NoReturn
    /\ calls = 0
    /\ panicked = FALSE

\* The profiled process at its start.
Init == InitProfiler /\ snapshot = NoSnapshot /\ InitReport /\ InitResolver

(* ------------------------------ frames --------------------------------- *)

Depth(t) == Len(stack[t])
Top(t) == stack[t][Depth(t)]
\* A failed overflow check ends the process: none of its threads runs on.
Running(t) == ~panicked
InFunction(t, fn) == Running(t) /\ Depth(t) > 0 /\ Top(t).fn = fn
InFrame(t, fn, pc) == InFunction(t, fn) /\ Top(t).pc = pc

Push(t, frames) == stack' = [stack EXCEPT ![t] = stack[t] \o frames]
Pop(t) == stack' = [stack EXCEPT ![t] = SubSeq(stack[t], 1, Depth(t) - 1)]
SetTop(t, frame) == stack' = [stack EXCEPT ![t][Depth(t)] = frame]

\* The frame of a call of alloc, dealloc or realloc.  forwards counts the
\* calls of the system allocator made so far; counted_dealloc and
\* counted_alloc tell whether the recording functions this call has called
\* have counted its deallocation and its allocation.
AllocatorFrame(fn, pc, ptr, size, backtrace, forwards) ==
    [fn |-> fn, pc |-> pc, ptr |-> ptr, size |-> size, backtrace |-> backtrace,
     forwards |-> forwards, counted_dealloc |-> FALSE, counted_alloc |-> FALSE]

\* What the lookup of a key in the table has found: nothing yet.
NoEntry == [present |-> FALSE, count |-> 0, total_bytes |-> 0, frames |-> <<>>]

RecordAllocationFrame(size, backtrace) ==
    [fn |-> "record_allocation", pc |-> "active", size |-> size,
     backtrace |-> backtrace, new_current |-> 0, peak |-> 0, frames |-> <<>>,
     entry |-> NoEntry]

RecordDeallocationFrame(size) ==
    [fn |-> "record_deallocation", pc |-> "active", size |-> size]

\* Where a thread may call the allocator: outside every call (the host
\* program), inside record_allocation (its resolver and its table update
\* allocate, free and resize under the same thread-local flags; the model
\* places these calls in the table update, where the mutex is held too), and
\* in the table copy of get_snapshot and in write_report.
Idle(t) == Running(t) /\ stack[t] = <<>>
\* The host program makes at most MaxCalls calls.  Its threads are
\* interchangeable and are numbered in the order of their first calls.
AtHost(t) == Idle(t) /\ calls < MaxCalls /\ t <= calls + 1
InRecording(t) == InFrame(t, "record_allocation", "insert")
InClone(t) == InFrame(t, "get_snapshot", "clone") /\ Top(t).clone_allocs > 0
\* write_report allocates too: the String env::var returns for the path and
\* the buffer serde_json::to_string writes into.
InExport(t) == InFunction(t, "write_report") /\ Top(t).own_allocs > 0
MayCallAllocator(t) == AtHost(t) \/ InRecording(t)

\* The sizes and backtraces of the calls the host program makes, and of the
\* calls the profiler's own code makes.
CallSizes(t) == IF stack[t] = <<>> THEN Sizes ELSE {1}
CallBacktraces(t) == IF stack[t] = <<>> THEN Backtraces ELSE {"main"}

\* The caller's side of an allocator call: a host call uses up one call of
\* the run, an allocation of the table copy is one allocation less to make.
CallerStack(t) ==
    IF InClone(t)
    THEN [stack[t] EXCEPT ![Depth(t)].clone_allocs = @ - 1]
    ELSE IF InExport(t)
    THEN [stack[t] EXCEPT ![Depth(t)].own_allocs = @ - 1]
    ELSE stack[t]
CallerCalls(t) == IF stack[t] = <<>> THEN calls + 1 ELSE calls


(* ----------------------- interception layer ---------------------------- *)

\* should_profile as it would be without the reentrancy check.
should_profile_always(flag) == TRUE

\* alloc and realloc: the closure over IN_ALLOCATOR that gives should_profile.
should_profile(flag) == ~flag

\* dealloc's should_profile as it would be if the enabled flag were the only
\* guard of a deallocation.
dealloc_should_profile_always(flag) == TRUE

\* dealloc: should_profile.
dealloc_should_profile(flag) == ~flag

\* The value alloc and realloc return: ptr, the system allocator's result.
ReturnedPtr(ptr) == ptr

\* The return of an allocator call that has not called a recording function.
ReturnAtOnce(t, op, provided, result) ==
    returned' = [thread |-> t, op |-> op, provided |-> provided, result |-> result,
                 forwards |-> 1,
                 counted_dealloc |-> FALSE, counted_alloc |-> FALSE]

\* alloc as it would be without the check of ptr.is_null().
alloc_without_null_check(t, size, backtrace, ok) ==
    LET ptr == IF ok THEN Ptr ELSE NullPtr
    IN  /\ MayCallAllocator(t) \/ ((InClone(t) \/ InExport(t)) /\ ok)
        /\ calls' = CallerCalls(t)
        /\ IF should_profile(IN_ALLOCATOR[t])
           THEN /\ IN_ALLOCATOR' = [IN_ALLOCATOR EXCEPT ![t] = TRUE]
                /\ stack' = [stack EXCEPT ![t] = CallerStack(t) \o
                       <<AllocatorFrame("alloc", "record_allocation", ptr, size,
                                        backtrace, 1),
                         RecordAllocationFrame(size, backtrace)>>]
                /\ returned' = NoReturn
           ELSE /\ stack' = [stack EXCEPT ![t] = CallerStack(t)]
                /\ ReturnAtOnce(t, "alloc", ptr, ReturnedPtr(ptr))
                /\ UNCHANGED IN_ALLOCATOR
        /\ UNCHANGED <<PROFILING_ACTIVE, IN_PROFILER, counters, allocation_sites,
                       table_lock, snapshot, panicked>>
        /\ UNCHANGED <<report_vars, resolver_vars>>

\* ProfilingAllocator::alloc up to the call of record_allocation.  ok is
\* whether System.alloc succeeds, backtrace what new_unresolved captures.
alloc(t, size, backtrace, ok) ==
    LET ptr == IF ok THEN Ptr ELSE NullPtr
    IN  /\ MayCallAllocator(t) \/ ((InClone(t) \/ InExport(t)) /\ ok)
        /\ calls' = CallerCalls(t)
        /\ IF ptr # NullPtr /\ should_profile(IN_ALLOCATOR[t])
           THEN /\ IN_ALLOCATOR' = [IN_ALLOCATOR EXCEPT ![t] = TRUE]
                /\ stack' = [stack EXCEPT ![t] = CallerStack(t) \o
                       <<AllocatorFrame("alloc", "record_allocation", ptr, size,
                                        backtrace, 1),
                         RecordAllocationFrame(size, backtrace)>>]
                /\ returned' = NoReturn
           ELSE /\ stack' = [stack EXCEPT ![t] = CallerStack(t)]
                /\ ReturnAtOnce(t, "alloc", ptr, ReturnedPtr(ptr))
                /\ UNCHANGED IN_ALLOCATOR
        /\ UNCHANGED <<PROFILING_ACTIVE, IN_PROFILER, counters, allocation_sites,
                       table_lock, snapshot, panicked>>
        /\ UNCHANGED <<report_vars, resolver_vars>>

\* ProfilingAllocator::dealloc up to the call of record_deallocation, and the
\* whole of it when it does not record.
dealloc(t, size) ==
    /\ MayCallAllocator(t)
    /\ calls' = CallerCalls(t)
    /\ IF dealloc_should_profile(IN_ALLOCATOR[t])
       THEN /\ Push(t, <<AllocatorFrame("dealloc", "record_deallocation", "unit",
                                        size, "none", 0),
                         RecordDeallocationFrame(size)>>)
            /\ returned' = NoReturn
       ELSE /\ ReturnAtOnce(t, "dealloc", "unit", "unit")
            /\ UNCHANGED stack
    /\ UNCHANGED <<PROFILING_ACTIVE, IN_ALLOCATOR, IN_PROFILER, counters,
                   allocation_sites, table_lock, snapshot, panicked>>
    /\ UNCHANGED <<report_vars, resolver_vars>>

\* realloc as it would be without the check of new_ptr.is_null().
realloc_without_null_check(t, old_size, new_size, backtrace, ok) ==
    LET new_ptr == IF ok THEN Ptr ELSE NullPtr
    IN  /\ MayCallAllocator(t)
        /\ calls' = CallerCalls(t)
        /\ IF should_profile(IN_ALLOCATOR[t])
           THEN /\ IN_ALLOCATOR' = [IN_ALLOCATOR EXCEPT ![t] = TRUE]
                /\ Push(t, <<AllocatorFrame("realloc", "record_deallocation", new_ptr,
                                            new_size, backtrace, 1),
                             RecordDeallocationFrame(old_size)>>)
                /\ returned' = NoReturn
           ELSE /\ ReturnAtOnce(t, "realloc", new_ptr, ReturnedPtr(new_ptr))
                /\ UNCHANGED <<stack, IN_ALLOCATOR>>
        /\ UNCHANGED <<PROFILING_ACTIVE, IN_PROFILER, counters, allocation_sites,
                       table_lock, snapshot, panicked>>
        /\ UNCHANGED <<report_vars, resolver_vars>>

\* ProfilingAllocator::realloc up to the call of record_deallocation.
realloc(t, old_size, new_size, backtrace, ok) ==
    LET new_ptr == IF ok THEN Ptr ELSE NullPtr
    IN  /\ MayCallAllocator(t)
        /\ calls' = CallerCalls(t)
        /\ IF new_ptr # NullPtr /\ should_profile(IN_ALLOCATOR[t])
           THEN /\ IN_ALLOCATOR' = [IN_ALLOCATOR EXCEPT ![t] = TRUE]
                /\ Push(t, <<AllocatorFrame("realloc", "record_deallocation", new_ptr,
                                            new_size, backtrace, 1),
                             RecordDeallocationFrame(old_size)>>)
                /\ returned' = NoReturn
           ELSE /\ ReturnAtOnce(t, "realloc", new_ptr, ReturnedPtr(new_ptr))
                /\ UNCHANGED <<stack, IN_ALLOCATOR>>
        /\ UNCHANGED <<PROFILING_ACTIVE, IN_PROFILER, counters, allocation_sites,
                       table_lock, snapshot, panicked>>
        /\ UNCHANGED <<report_vars, resolver_vars>>

\* The interception layer from the return of a recording function to its next
\* access to shared state: dealloc forwards to System.dealloc and returns,
\* realloc calls record_allocation after record_deallocation, alloc and
\* realloc clear IN_ALLOCATOR and return ptr after record_allocation.
Resume(t) ==
    LET caller == stack[t][Depth(t) - 1]
        below == SubSeq(stack[t], 1, Depth(t) - 2)
    IN  CASE caller.fn = "dealloc" ->
                 /\ stack' = [stack EXCEPT ![t] = below]
                 /\ returned' =
                        [thread |-> t, op |-> "dealloc", provided |-> "unit",
                         result |-> "unit",
                         forwards |-> caller.forwards + 1,
                         counted_dealloc |-> caller.counted_dealloc,
                         counted_alloc |-> caller.counted_alloc]
                 /\ UNCHANGED IN_ALLOCATOR
          [] caller.fn = "realloc" /\ caller.pc = "record_deallocation" ->
                 /\ stack' = [stack EXCEPT ![t] = below \o
                        <<[caller EXCEPT !.pc = "record_allocation"],
                          RecordAllocationFrame(caller.size, caller.backtrace)>>]
                 /\ returned' = NoReturn
                 /\ UNCHANGED IN_ALLOCATOR
          [] OTHER ->
                 /\ stack' = [stack EXCEPT ![t] = below]
                 /\ returned' =
                        [thread |-> t, op |-> caller.fn, provided |-> caller.ptr,
                         result |-> ReturnedPtr(caller.ptr),
                         forwards |-> caller.forwards,
                         counted_dealloc |-> caller.counted_dealloc,
                         counted_alloc |-> caller.counted_alloc]
                 /\ IN_ALLOCATOR' = [IN_ALLOCATOR EXCEPT ![t] = FALSE]

\* The frame of the interception layer that called the recording function.
Caller(t) == Depth(t) - 1

(* --------------------------- profiler state ---------------------------- *)

\* record_allocation as it would be without the check of PROFILING_ACTIVE.
ra_check_active_unguarded(t) ==
    /\ InFrame(t, "record_allocation", "active")
    /\ IF IN_PROFILER[t]
       THEN Resume(t) /\ UNCHANGED IN_PROFILER
       ELSE /\ IN_PROFILER' = [IN_PROFILER EXCEPT ![t] = TRUE]
            /\ SetTop(t, [Top(t) EXCEPT !.pc = "total_allocations"])
            /\ returned' = NoReturn
            /\ UNCHANGED IN_ALLOCATOR
    /\ UNCHANGED <<PROFILING_ACTIVE, counters, allocation_sites, table_lock,
                   snapshot, calls, panicked>>
    /\ UNCHANGED <<report_vars, resolver_vars>>

\* record_allocation: the check of PROFILING_ACTIVE and of IN_PROFILER.
ra_check_active(t) ==
    /\ InFrame(t, "record_allocation", "active")
    /\ IF ~PROFILING_ACTIVE
       THEN Resume(t) /\ UNCHANGED IN_PROFILER
       ELSE IF IN_PROFILER[t]
       THEN Resume(t) /\ UNCHANGED IN_PROFILER
       ELSE /\ IN_PROFILER' = [IN_PROFILER EXCEPT ![t] = TRUE]
            /\ SetTop(t, [Top(t) EXCEPT !.pc = "total_allocations"])
            /\ returned' = NoReturn
            /\ UNCHANGED IN_ALLOCATOR
    /\ UNCHANGED <<PROFILING_ACTIVE, counters, allocation_sites, table_lock,
                   snapshot, calls, panicked>>
    /\ UNCHANGED <<report_vars, resolver_vars>>

\* record_allocation: total_allocations.fetch_add(1).
ra_total_allocations(t) ==
    /\ InFrame(t, "record_allocation", "total_allocations")
    /\ total_allocations' = wrapping_add(total_allocations, 1)
    /\ stack' = [stack EXCEPT ![t][Caller(t)].counted_alloc = TRUE,
                              ![t][Depth(t)].pc = "total_bytes_allocated"]
    /\ returned' = NoReturn
    /\ UNCHANGED <<PROFILING_ACTIVE, IN_ALLOCATOR, IN_PROFILER, total_deallocations,
                   total_bytes_allocated, peak_memory, current_memory,
                   allocation_sites, table_lock, snapshot, calls, panicked>>
    /\ UNCHANGED <<report_vars, resolver_vars>>

\* record_allocation: total_bytes_allocated.fetch_add(size).
ra_total_bytes_allocated(t) ==
    /\ InFrame(t, "record_allocation", "total_bytes_allocated")
    /\ total_bytes_allocated' = wrapping_add(total_bytes_allocated, Top(t).size)
    /\ SetTop(t, [Top(t) EXCEPT !.pc = "current_memory"])
    /\ returned' = NoReturn
    /\ UNCHANGED <<PROFILING_ACTIVE, IN_ALLOCATOR, IN_PROFILER, total_allocations,
                   total_deallocations, peak_memory, current_memory,
                   allocation_sites, table_lock, snapshot, calls, panicked>>
    /\ UNCHANGED <<report_vars, resolver_vars>>

\* record_allocation: new_current = current_memory.fetch_add(size) + size.
\* The fetch_add wraps; the addition after it wraps in a build without
\* overflow checks and panics in a build with them.
ra_current_memory(t) ==
    /\ InFrame(t, "record_allocation", "current_memory")
    /\ current_memory' = wrapping_add(current_memory, Top(t).size)
    /\ IF current_memory + Top(t).size >= Modulus
       THEN \/ /\ panicked' = TRUE
               /\ UNCHANGED stack
            \/ /\ SetTop(t, [Top(t) EXCEPT !.pc = "load_peak",
                       !.new_current = wrapping_add(current_memory, Top(t).size)])
               /\ UNCHANGED panicked
       ELSE /\ SetTop(t, [Top(t) EXCEPT !.pc = "load_peak",
                       !.new_current = current_memory + Top(t).size])
            /\ UNCHANGED panicked
    /\ returned' = NoReturn
    /\ UNCHANGED <<PROFILING_ACTIVE, IN_ALLOCATOR, IN_PROFILER, total_allocations,
                   total_deallocations, total_bytes_allocated, peak_memory,
                   allocation_sites, table_lock, snapshot, calls>>
    /\ UNCHANGED <<report_vars, resolver_vars>>

\* record_allocation: peak = peak_memory.load().
ra_load_peak(t) ==
    /\ InFrame(t, "record_allocation", "load_peak")
    /\ SetTop(t, [Top(t) EXCEPT !.pc = "update_peak", !.peak = peak_memory])
    /\ returned' = NoReturn
    /\ UNCHANGED <<PROFILING_ACTIVE, IN_ALLOCATOR, IN_PROFILER, counters,
                   allocation_sites, table_lock, snapshot, calls, panicked>>
    /\ UNCHANGED <<report_vars, resolver_vars>>

\* An unconditional store in the place of the compare-and-exchange.
store_unconditionally(value, expected, new) == new

\* The value an atomic holds after compare_exchange_weak(expected, new) that
\* does not fail spuriously.
compare_exchange_weak(value, expected, new) == IF value = expected THEN new ELSE value

\* record_allocation: one pass of the while loop over peak_memory.
ra_update_peak(t) ==
    /\ InFrame(t, "record_allocation", "update_peak")
    /\ IF Top(t).new_current > Top(t).peak
       THEN \/ \* the exchange is attempted: Ok breaks, Err(x) retries with x
               /\ peak_memory' =
                      compare_exchange_weak(peak_memory, Top(t).peak, Top(t).new_current)
               /\ IF peak_memory = Top(t).peak
                  THEN SetTop(t, [Top(t) EXCEPT !.pc = "resolve"])
                  ELSE SetTop(t, [Top(t) EXCEPT !.peak = peak_memory])
            \/ \* the exchange fails spuriously: Err(x) with the value held
               /\ peak_memory = Top(t).peak
               /\ SetTop(t, [Top(t) EXCEPT !.peak = peak_memory])
               /\ UNCHANGED peak_memory
       ELSE /\ SetTop(t, [Top(t) EXCEPT !.pc = "resolve"])
            /\ UNCHANGED peak_memory
    /\ returned' = NoReturn
    /\ UNCHANGED <<PROFILING_ACTIVE, IN_ALLOCATOR, IN_PROFILER, total_allocations,
                   total_deallocations, total_bytes_allocated, current_memory,
                   allocation_sites, table_lock, snapshot, calls, panicked>>
    /\ UNCHANGED <<report_vars, resolver_vars>>

\* record_allocation as it would be if IN_PROFILER were cleared after the
\* table update only.
ra_resolve_keeping_flag(t) ==
    /\ InFrame(t, "record_allocation", "resolve")
    /\ LET frames == extract_frames(resolve(Top(t).backtrace))
       IN  IF frames # <<>>
           THEN /\ SetTop(t, [Top(t) EXCEPT !.pc = "lock", !.frames = frames])
                /\ returned' = NoReturn
                /\ UNCHANGED <<IN_PROFILER, IN_ALLOCATOR>>
           ELSE /\ UNCHANGED IN_PROFILER
                /\ Resume(t)
    /\ UNCHANGED <<PROFILING_ACTIVE, counters, allocation_sites, table_lock,
                   snapshot, calls, panicked>>
    /\ UNCHANGED <<report_vars, resolver_vars>>

\* record_allocation: backtrace.resolve(), extract_frames and, when no frame
\* is kept, the clearing of IN_PROFILER and the return.
ra_resolve(t) ==
    /\ InFrame(t, "record_allocation", "resolve")
    /\ LET frames == extract_frames(resolve(Top(t).backtrace))
       IN  IF frames # <<>>
           THEN /\ SetTop(t, [Top(t) EXCEPT !.pc = "lock", !.frames = frames])
                /\ returned' = NoReturn
                /\ UNCHANGED <<IN_PROFILER, IN_ALLOCATOR>>
           ELSE /\ IN_PROFILER' = [IN_PROFILER EXCEPT ![t] = FALSE]
                /\ Resume(t)
    /\ UNCHANGED <<PROFILING_ACTIVE, counters, allocation_sites, table_lock,
                   snapshot, calls, panicked>>
    /\ UNCHANGED <<report_vars, resolver_vars>>

\* allocation_sites.lock() as it would be if the mutex excluded nobody.
ra_lock_without_exclusion(t) ==
    /\ InFrame(t, "record_allocation", "lock")
    /\ table_lock' = t
    /\ SetTop(t, [Top(t) EXCEPT !.pc = "entry"])
    /\ returned' = NoReturn
    /\ UNCHANGED <<PROFILING_ACTIVE, IN_ALLOCATOR, IN_PROFILER, counters,
                   allocation_sites, snapshot, calls, panicked>>
    /\ UNCHANGED <<report_vars, resolver_vars>>

\* record_allocation: allocation_sites.lock().  The mutex is not reentrant:
\* a thread that holds it waits for itself.
ra_lock(t) ==
    /\ InFrame(t, "record_allocation", "lock")
    /\ table_lock = 0
    /\ table_lock' = t
    /\ SetTop(t, [Top(t) EXCEPT !.pc = "entry"])
    /\ returned' = NoReturn
    /\ UNCHANGED <<PROFILING_ACTIVE, IN_ALLOCATOR, IN_PROFILER, counters,
                   allocation_sites, snapshot, calls, panicked>>
    /\ UNCHANGED <<report_vars, resolver_vars>>

\* HashMap::entry(key): the occupied entry with the site read from the table,
\* or the vacant entry.
Entry(sites, key) ==
    IF key \in DOMAIN sites
    THEN [present |-> TRUE, count |-> sites[key].count,
          total_bytes |-> sites[key].total_bytes, frames |-> sites[key].frames]
    ELSE NoEntry

\* record_allocation: the lookup of the key in the table.
ra_entry(t) ==
    /\ InFrame(t, "record_allocation", "entry")
    /\ SetTop(t, [Top(t) EXCEPT !.pc = "insert",
           !.entry = Entry(allocation_sites, SiteKey(Top(t).frames))])
    /\ returned' = NoReturn
    /\ UNCHANGED <<PROFILING_ACTIVE, IN_ALLOCATOR, IN_PROFILER, counters,
                   allocation_sites, table_lock, snapshot, calls, panicked>>
    /\ UNCHANGED <<report_vars, resolver_vars>>

\* and_modify(..).or_insert_with(..): the table with the site of the entry
\* written: the site read with count + 1 and total_bytes + size when the
\* entry is occupied, a new site with the frames when it is vacant.
UpdateSite(sites, entry, key, size, frames) ==
    [k \in DOMAIN sites \cup {key} |->
        IF k # key THEN sites[k]
        ELSE IF entry.present
        THEN [count |-> entry.count + 1, total_bytes |-> entry.total_bytes + size,
              frames |-> entry.frames]
        ELSE [count |-> 1, total_bytes |-> size, frames |-> frames]]

\* record_allocation: the update of the table, the release of the mutex, the
\* clearing of IN_PROFILER and the return.
ra_insert(t) ==
    /\ InFrame(t, "record_allocation", "insert")
    /\ allocation_sites' =
           UpdateSite(allocation_sites, Top(t).entry, SiteKey(Top(t).frames),
                      Top(t).size, Top(t).frames)
    /\ table_lock' = 0
    /\ IN_PROFILER' = [IN_PROFILER EXCEPT ![t] = FALSE]
    /\ Resume(t)
    /\ UNCHANGED <<PROFILING_ACTIVE, counters, snapshot, calls, panicked>>
    /\ UNCHANGED <<report_vars, resolver_vars>>


\* record_deallocation: the check of PROFILING_ACTIVE.
rd_check_active(t) ==
    /\ InFrame(t, "record_deallocation", "active")
    /\ IF ~PROFILING_ACTIVE
       THEN Resume(t)
       ELSE /\ SetTop(t, [Top(t) EXCEPT !.pc = "total_deallocations"])
            /\ returned' = NoReturn
            /\ UNCHANGED IN_ALLOCATOR
    /\ UNCHANGED <<PROFILING_ACTIVE, IN_PROFILER, counters, allocation_sites,
                   table_lock, snapshot, calls, panicked>>
    /\ UNCHANGED <<report_vars, resolver_vars>>

\* record_deallocation: total_deallocations.fetch_add(1).
rd_total_deallocations(t) ==
    /\ InFrame(t, "record_deallocation", "total_deallocations")
    /\ total_deallocations' = wrapping_add(total_deallocations, 1)
    /\ stack' = [stack EXCEPT ![t][Caller(t)].counted_dealloc = TRUE,
                              ![t][Depth(t)].pc = "current_memory"]
    /\ returned' = NoReturn
    /\ UNCHANGED <<PROFILING_ACTIVE, IN_ALLOCATOR, IN_PROFILER, total_allocations,
                   total_bytes_allocated, peak_memory, current_memory,
                   allocation_sites, table_lock, snapshot, calls, panicked>>
    /\ UNCHANGED <<report_vars, resolver_vars>>

\* The value current_memory holds after fetch_sub(size).
fetch_sub(value, size) == wrapping_sub(value, size)

\* record_deallocation: current_memory.fetch_sub(size) and the return.
rd_current_memory(t) ==
    /\ InFrame(t, "record_deallocation", "current_memory")
    /\ current_memory' = fetch_sub(current_memory, Top(t).size)
    /\ Resume(t)
    /\ UNCHANGED <<PROFILING_ACTIVE, IN_PROFILER, total_allocations,
                   total_deallocations, total_bytes_allocated, peak_memory,
                   allocation_sites, table_lock, snapshot, calls, panicked>>
    /\ UNCHANGED <<report_vars, resolver_vars>>

\* The number of allocations HashMap::clone makes: none for an empty table,
\* at least the one of the new table's storage otherwise.
CloneAllocs(sites) == IF DOMAIN sites = {} THEN 0 ELSE 1

\* get_snapshot: the call.
get_snapshot(t) ==
    /\ AtHost(t)
    /\ calls' = calls + 1
    /\ Push(t, <<[fn |-> "get_snapshot", pc |-> "lock", snap |-> NoSnapshot,
                  clone_allocs |-> 0]>>)
    /\ returned' = NoReturn
    /\ UNCHANGED <<PROFILING_ACTIVE, IN_ALLOCATOR, IN_PROFILER, counters,
                   allocation_sites, table_lock, snapshot, panicked>>
    /\ UNCHANGED <<report_vars, resolver_vars>>

\* get_snapshot: allocation_sites.lock().
gs_lock(t) ==
    /\ InFrame(t, "get_snapshot", "lock")
    /\ table_lock = 0
    /\ table_lock' = t
    /\ SetTop(t, [Top(t) EXCEPT !.pc = "total_allocations"])
    /\ returned' = NoReturn
    /\ UNCHANGED <<PROFILING_ACTIVE, IN_ALLOCATOR, IN_PROFILER, counters,
                   allocation_sites, snapshot, calls, panicked>>
    /\ UNCHANGED <<report_vars, resolver_vars>>

\* get_snapshot: the five loads, in the order of the struct expression.
gs_load(t) ==
    /\ InFunction(t, "get_snapshot")
    /\ \/ /\ Top(t).pc = "total_allocations"
          /\ SetTop(t, [Top(t) EXCEPT !.pc = "total_deallocations",
                 !.snap.total_allocations = total_allocations])
       \/ /\ Top(t).pc = "total_deallocations"
          /\ SetTop(t, [Top(t) EXCEPT !.pc = "total_bytes_allocated",
                 !.snap.total_deallocations = total_deallocations])
       \/ /\ Top(t).pc = "total_bytes_allocated"
          /\ SetTop(t, [Top(t) EXCEPT !.pc = "peak_memory",
                 !.snap.total_bytes_allocated = total_bytes_allocated])
       \/ /\ Top(t).pc = "peak_memory"
          /\ SetTop(t, [Top(t) EXCEPT !.pc = "current_memory",
                 !.snap.peak_memory = peak_memory])
       \/ /\ Top(t).pc = "current_memory"
          /\ SetTop(t, [Top(t) EXCEPT !.pc = "clone",
                 !.snap.current_memory = current_memory,
                 !.clone_allocs = CloneAllocs(allocation_sites)])
    /\ returned' = NoReturn
    /\ UNCHANGED <<PROFILING_ACTIVE, IN_ALLOCATOR, IN_PROFILER, counters,
                   allocation_sites, table_lock, snapshot, calls, panicked>>
    /\ UNCHANGED <<report_vars, resolver_vars>>

\* get_snapshot: the end of sites.clone(), the release of the mutex and the
\* return of the snapshot.
gs_return(t) ==
    /\ InFrame(t, "get_snapshot", "clone")
    /\ Top(t).clone_allocs = 0
    /\ snapshot' = [Top(t).snap EXCEPT !.taken = TRUE,
                                       !.allocation_sites = allocation_sites]
    /\ table_lock' = 0
    /\ Pop(t)
    /\ returned' = NoReturn
    /\ UNCHANGED <<PROFILING_ACTIVE, IN_ALLOCATOR, IN_PROFILER, counters,
                   allocation_sites, calls, panicked>>
    /\ UNCHANGED <<report_vars, resolver_vars>>

\* AllocationProfiler::enable
enable(t) ==
    /\ Idle(t)
    /\ PROFILING_ACTIVE' = TRUE
    /\ returned' = NoReturn
    /\ UNCHANGED <<IN_ALLOCATOR, IN_PROFILER, counters, allocation_sites,
                   table_lock, stack, snapshot, calls, panicked>>
    /\ UNCHANGED <<report_vars, resolver_vars>>

\* AllocationProfiler::disable
disable(t) ==
    /\ Idle(t)
    /\ PROFILING_ACTIVE' = FALSE
    /\ returned' = NoReturn
    /\ UNCHANGED <<IN_ALLOCATOR, IN_PROFILER, counters, allocation_sites,
                   table_lock, stack, snapshot, calls, panicked>>
    /\ UNCHANGED <<report_vars, resolver_vars>>

(* --------------------------- specification ----------------------------- *)

Step(t) ==
    \/ \E size \in CallSizes(t), backtrace \in CallBacktraces(t), ok \in BOOLEAN :
           alloc(t, size, backtrace, ok)
    \/ \E size \in CallSizes(t) : dealloc(t, size)
    \/ \E old_size \in CallSizes(t), new_size \in CallSizes(t),
          backtrace \in CallBacktraces(t), ok \in BOOLEAN :
           realloc(t, old_size, new_size, backtrace, ok)
    \/ ra_check_active(t)
    \/ ra_total_allocations(t)
    \/ ra_total_bytes_allocated(t)
    \/ ra_current_memory(t)
    \/ ra_load_peak(t)
    \/ ra_update_peak(t)
    \/ ra_resolve(t)
    \/ ra_lock(t)
    \/ ra_entry(t)
    \/ ra_insert(t)
    \/ rd_check_active(t)
    \/ rd_total_deallocations(t)
    \/ rd_current_memory(t)
    \/ get_snapshot(t)
    \/ gs_lock(t)
    \/ gs_load(t)
    \/ gs_return(t)
    \/ enable(t)
    \/ disable(t)

Next == \E t \in Threads : Step(t)

Spec == Init /\ [][Next]_vars


(* ------------------- the symbol resolver on its own -------------------- *)

\* The longest raw stack of the enumeration.
MaxStackDepth == 3

\* The symbols of the raw stacks: two of the profiler's own, two of the host
\* program (one with a hash suffix, one with a location) and one without a
\* name.
RawSymbols ==
    {Sym(NameCapture), Sym(NameAllocHook), Sym(NameWork), SymAt(NameMain, FileX, 7),
     SymNoName}

RECURSIVE StacksOfDepth(_)
\* The raw stacks of n frames, each frame with one symbol.
StacksOfDepth(n) ==
    IF n = 0 THEN {<<>>}
    ELSE {<<<<symbol>>>> \o rest : symbol \in RawSymbols, rest \in StacksOfDepth(n - 1)}

\* The raw stacks extract_frames is given: every stack of at most
\* MaxStackDepth frames, and the stacks the host program's calls capture.
RawStacks ==
    UNION {StacksOfDepth(n) : n \in 0..MaxStackDepth}
        \cup {resolve(backtrace) : backtrace \in Backtraces}

\* A backtrace has been resolved and is about to be given to extract_frames.
InitExtract ==
    /\ InitProfiler
    /\ snapshot = NoSnapshot
    /\ InitReport
    /\ raw_stack \in RawStacks
    /\ kept_frames = NotExtracted

\* The call extract_frames(&backtrace).
extract(backtrace) ==
    /\ ~kept_frames.done
    /\ backtrace = raw_stack
    /\ kept_frames' = [done |-> TRUE, frames |-> extract_frames(backtrace)]
    /\ UNCHANGED <<profiler_vars, snapshot, report_vars, raw_stack>>

NextExtract == \E backtrace \in RawStacks : extract(backtrace)

SpecExtract == InitExtract /\ [][NextExtract]_vars

(* ------------------------ strings of the reporter ---------------------- *)

\* The printable ASCII characters in the order of their codes, from 32 on
\* (the grave accent, code 96, by its code point).
Ascii ==
    <<" ", "!", "\"", "#", "$", "%", "&", "'", "(", ")", "*", "+", ",", "-", ".", "/",
      "0", "1", "2", "3", "4", "5", "6", "7", "8", "9", ":", ";", "<", "=", ">", "?",
      "@", "A", "B", "C", "D", "E", "F", "G", "H", "I", "J", "K", "L", "M", "N", "O",
      "P", "Q", "R", "S", "T", "U", "V", "W", "X", "Y", "Z", "[", "\\", "]", "^", "_",
      "U+0060", "a", "b", "c", "d", "e", "f", "g", "h", "i", "j", "k", "l", "m", "n", "o",
      "p", "q", "r", "s", "t", "u", "v", "w", "x", "y", "z", "{", "|", "}", "~">>

\* The code of each printable ASCII character.
AsciiCode == [c \in {Ascii[i] : i \in 1..Len(Ascii)} |->
                 31 + (CHOOSE i \in 1..Len(Ascii) : Ascii[i] = c)]
AsciiChars == DOMAIN AsciiCode

\* The first byte of a character's UTF-8 encoding.
CharCode(c) ==
    IF c \in AsciiChars THEN AsciiCode[c]
    ELSE IF c = "\n" THEN 10
    ELSE 226

RECURSIVE StrCmp(_, _)
\* str::cmp: -1, 0 or 1 as a is less than, equal to or greater than b.
StrCmp(a, b) ==
    IF a = <<>> THEN (IF b = <<>> THEN 0 ELSE -1)
    ELSE IF b = <<>> THEN 1
    ELSE IF CharCode(Head(a)) < CharCode(Head(b)) THEN -1
    ELSE IF CharCode(Head(a)) > CharCode(Head(b)) THEN 1
    ELSE StrCmp(Tail(a), Tail(b))

\* str::find, 0 when there is no match, else the 1-based position.
Find(s, pat) ==
    LET hits == {i \in 1..(Len(s) + 1) : MatchesAt(s, pat, i)}
    IN  IF hits = {} THEN 0 ELSE CHOOSE i \in hits : \A j \in hits : i <= j

\* char::is_whitespace on the characters of the model.
IsWhitespace(c) == c \in {" ", "\n", "\t", "\r"}

RECURSIVE TrimStart(_)
TrimStart(s) ==
    IF s # <<>> /\ IsWhitespace(Head(s)) THEN TrimStart(Tail(s)) ELSE s

RECURSIVE TrimEnd(_)
TrimEnd(s) ==
    IF s # <<>> /\ IsWhitespace(s[Len(s)]) THEN TrimEnd(SubSeq(s, 1, Len(s) - 1)) ELSE s

\* str::trim
Trim(s) == TrimEnd(TrimStart(s))

RECURSIVE Split(_, _)
\* str::split(sep).collect(): the parts between the occurrences of sep.
Split(s, sep) ==
    LET pos == Find(s, sep)
    IN  IF pos = 0 THEN <<s>>
        ELSE <<SubSeq(s, 1, pos - 1)>> \o Split(SubSeq(s, pos + Len(sep), Len(s)), sep)

\* char::to_lowercase on ASCII letters.
ToLowerChar(c) ==
    IF CharCode(c) >= 65 /\ CharCode(c) <= 90 THEN Ascii[CharCode(c) + 32 - 31] ELSE c

\* str::to_lowercase
to_lowercase(s) == [i \in 1..Len(s) |-> ToLowerChar(s[i])]

(* --------------------------- report engine ----------------------------- *)

\* Reporter::extract_function_name
extract_function_name(frame) ==
    LET paren_pos == Find(frame, <<"(">>)
    IN  IF paren_pos # 0 THEN Trim(SubSeq(frame, 1, paren_pos - 1)) ELSE frame

Unknown == <<"u", "n", "k", "n", "o", "w", "n">>

\* Reporter::extract_module_name
extract_module_name(frame) ==
    LET func_name == extract_function_name(frame)
        parts == Split(func_name, <<":", ":">>)
    IN  IF Len(parts) >= 2 THEN parts[1] \o <<":", ":">> \o parts[2]
        ELSE IF parts # <<>> THEN parts[1]
        ELSE Unknown

\* A slice whose start is after its end: the reporter panics.
SlicePanic == <<"panic">>

\* Reporter::extract_file_name
extract_file_name(frame) ==
    LET start == Find(frame, <<"(">>)
        end == RFind(frame, <<":">>)
    IN  IF start # 0 /\ end # 0
        THEN IF start + 1 > end THEN SlicePanic
             ELSE LET path == SubSeq(frame, start + 1, end - 1)
                      seps == {i \in 1..Len(path) : path[i] \in {"\\", "/"}}
                      last_sep == IF seps = {} THEN 0
                                  ELSE CHOOSE i \in seps : \A j \in seps : j <= i
                  IN  IF last_sep # 0 THEN SubSeq(path, last_sep + 1, Len(path))
                      ELSE path
        ELSE Unknown

\* The grouping key of a frame: the match on options.group_by.
GroupKey(frame, group_by) ==
    CASE group_by = "Function" -> extract_function_name(frame)
      [] group_by = "Module" -> extract_module_name(frame)
      [] OTHER -> extract_file_name(frame)

\* The orders a HashMap may iterate its keys in: every order.
IterationOrders(keys) ==
    {order \in [1..Cardinality(keys) -> keys] :
        \A i \in 1..Cardinality(keys), j \in 1..Cardinality(keys) :
            order[i] = order[j] => i = j}

\* prepare_sites: whether the filters of the options let a site through.
PassesFilters(key, site, opts) ==
    /\ opts.filter # None =>
           Contains(to_lowercase(key), to_lowercase(Unwrap(opts.filter)))
    /\ opts.min_count # None => site.count >= Unwrap(opts.min_count)
    /\ opts.threshold_bytes # None => site.total_bytes >= Unwrap(opts.threshold_bytes)

\* prepare_sites: grouped.entry(key).and_modify(..).or_insert(..), which sums
\* into the entry of the key and keeps the frames of the site that made it.
InsertSite(grouped, key, site) ==
    [k \in DOMAIN grouped \cup {key} |->
        IF k # key THEN grouped[k]
        ELSE IF key \in DOMAIN grouped
        THEN [count |-> grouped[key].count + site.count,
              total_bytes |-> grouped[key].total_bytes + site.total_bytes,
              frames |-> grouped[key].frames]
        ELSE [count |-> site.count,
              total_bytes |-> site.total_bytes,
              frames |-> site.frames]]

\* prepare_sites: the body of the loop from the filters on, for a site and
\* its key.
FilterSite(grouped, key, site, opts) ==
    IF ~PassesFilters(key, site, opts) THEN grouped
    ELSE InsertSite(grouped, key, site)

\* prepare_sites: the body of the loop for one site.
VisitSite(grouped, site, opts) ==
    IF site.frames = <<>> THEN grouped
    ELSE FilterSite(grouped, GroupKey(site.frames[1], opts.group_by), site, opts)

RECURSIVE GroupSites(_, _, _, _)
\* prepare_sites: the loop over snapshot.allocation_sites.values(), which
\* visits the sites in site_order and builds the map grouped.
GroupSites(sites, site_order, opts, grouped) ==
    IF site_order = <<>> THEN grouped
    ELSE GroupSites(sites, Tail(site_order), opts,
                    VisitSite(grouped, sites[Head(site_order)], opts))

\* The comparison closures as they would be with the counts and the sizes
\* ascending.
ComesBeforeAscending(a, b, sort_by) ==
    CASE sort_by = "Count" -> a.count < b.count
      [] sort_by = "Size" -> a.total_bytes < b.total_bytes
      [] OTHER -> StrCmp(a.name, b.name) = -1

\* The comparison closures of sort_by: whether a must come before b.
ComesBefore(a, b, sort_by) ==
    CASE sort_by = "Count" -> a.count > b.count
      [] sort_by = "Size" -> a.total_bytes > b.total_bytes
      [] OTHER -> StrCmp(a.name, b.name) = -1

RECURSIVE InsertStable(_, _, _)
\* x put into a sorted list after every element that need not come after it.
InsertStable(sorted, x, sort_by) ==
    IF sorted = <<>> THEN <<x>>
    ELSE IF ComesBefore(x, Head(sorted), sort_by) THEN <<x>> \o sorted
    ELSE <<Head(sorted)>> \o InsertStable(Tail(sorted), x, sort_by)

RECURSIVE StableSort(_, _, _)
\* slice::sort_by, which is stable: equal elements keep their order.
StableSort(seq, sort_by, sorted) ==
    IF seq = <<>> THEN sorted
    ELSE StableSort(Tail(seq), sort_by, InsertStable(sorted, Head(seq), sort_by))

\* Vec::truncate
Truncate(seq, limit) ==
    IF limit = None \/ Len(seq) <= Unwrap(limit) THEN seq
    ELSE SubSeq(seq, 1, Unwrap(limit))

\* The map grouped of prepare_sites.
Grouped(snap, opts, site_order) ==
    GroupSites(snap.allocation_sites, site_order, opts, <<>>)

\* prepare_sites: grouped.into_iter() collected into a vector, the map being
\* iterated in group_order.
IntoVec(grouped, group_order) ==
    [i \in 1..Len(group_order) |->
        [name |-> group_order[i],
         count |-> grouped[group_order[i]].count,
         total_bytes |-> grouped[group_order[i]].total_bytes,
         frames |-> grouped[group_order[i]].frames]]

\* Reporter::prepare_sites.  site_order is the order in which the site table
\* is iterated, group_order the order in which the map grouped is.
prepare_sites(snap, opts, site_order, group_order) ==
    Truncate(StableSort(IntoVec(Grouped(snap, opts, site_order), group_order),
                        opts.sort_by, <<>>),
             opts.limit)

(* ------------------------- snapshot persistence ------------------------ *)

\* The values of a JSON document.
JNum(n) == [type |-> "num", n |-> n]
JStr(s) == [type |-> "str", s |-> s]
JArr(items) == [type |-> "arr", items |-> items]
\* members is a sequence of <<key, value>> pairs in the order written.
JObj(members) == [type |-> "obj", members |-> members]

\* The escape of a character as it would be if nothing were escaped.
EscapeCharRaw(c) == <<c>>

\* serde_json's escape of one character of a string.
EscapeChar(c) ==
    CASE c = "\"" -> <<"\\", "\"">>
      [] c = "\\" -> <<"\\", "\\">>
      [] c = "\n" -> <<"\\", "n">>
      [] c = "\t" -> <<"\\", "t">>
      [] c = "\r" -> <<"\\", "r">>
      [] OTHER -> <<c>>

\* A string as serde_json writes it: quoted and escaped.
Quote(s) == <<"\"">> \o Concat([i \in 1..Len(s) |-> EscapeChar(s[i])]) \o <<"\"">>

\* The line break and indentation of the pretty formatter, nothing in the
\* compact one.
Indent(pretty, depth) ==
    IF pretty THEN <<"\n">> \o [i \in 1..(2 * depth) |-> " "] ELSE <<>>

RECURSIVE WriteJson(_, _, _)
RECURSIVE WriteItems(_, _, _)
RECURSIVE WriteMembers(_, _, _)
\* serde_json::to_string (pretty = FALSE) and to_string_pretty (TRUE) below
\* depth levels of nesting.
WriteJson(v, pretty, depth) ==
    CASE v.type = "num" -> Decimal(v.n)
      [] v.type = "str" -> Quote(v.s)
      [] v.type = "arr" ->
             IF v.items = <<>> THEN <<"[", "]">>
             ELSE <<"[">> \o WriteItems(v.items, pretty, depth + 1)
                      \o Indent(pretty, depth) \o <<"]">>
      [] OTHER ->
             IF v.members = <<>> THEN <<"{", "}">>
             ELSE <<"{">> \o WriteMembers(v.members, pretty, depth + 1)
                      \o Indent(pretty, depth) \o <<"}">>

WriteItems(items, pretty, depth) ==
    Indent(pretty, depth) \o WriteJson(Head(items), pretty, depth)
        \o (IF Len(items) = 1 THEN <<>>
            ELSE <<",">> \o WriteItems(Tail(items), pretty, depth))

WriteMembers(members, pretty, depth) ==
    Indent(pretty, depth) \o Quote(Head(members)[1]) \o <<":">>
        \o (IF pretty THEN <<" ">> ELSE <<>>)
        \o WriteJson(Head(members)[2], pretty, depth)
        \o (IF Len(members) = 1 THEN <<>>
            ELSE <<",">> \o WriteMembers(Tail(members), pretty, depth))

\* The names of the fields of ProfileSnapshot and of AllocationSite.
FieldTotalAllocations ==
    <<"t", "o", "t", "a", "l", "_", "a", "l", "l", "o", "c", "a", "t", "i", "o", "n", "s">>
FieldTotalDeallocations ==
    <<"t", "o", "t", "a", "l", "_", "d", "e", "a", "l", "l", "o", "c", "a", "t", "i",
      "o", "n", "s">>
FieldTotalBytesAllocated ==
    <<"t", "o", "t", "a", "l", "_", "b", "y", "t", "e", "s", "_", "a", "l", "l", "o",
      "c", "a", "t", "e", "d">>
FieldPeakMemory == <<"p", "e", "a", "k", "_", "m", "e", "m", "o", "r", "y">>
FieldCurrentMemory ==
    <<"c", "u", "r", "r", "e", "n", "t", "_", "m", "e", "m", "o", "r", "y">>
FieldAllocationSites ==
    <<"a", "l", "l", "o", "c", "a", "t", "i", "o", "n", "_", "s", "i", "t", "e", "s">>
FieldCount == <<"c", "o", "u", "n", "t">>
FieldTotalBytes == <<"t", "o", "t", "a", "l", "_", "b", "y", "t", "e", "s">>
FieldFrames == <<"f", "r", "a", "m", "e", "s">>

\* #[derive(Serialize)] for AllocationSite: the fields in their order.
SiteToJson(site) ==
    JObj(<< <<FieldCount, JNum(site.count)>>,
            <<FieldTotalBytes, JNum(site.total_bytes)>>,
            <<FieldFrames,
              JArr([i \in 1..Len(site.frames) |-> JStr(site.frames[i])])>> >>)

\* #[derive(Serialize)] for ProfileSnapshot: the fields in their order, the
\* entries of the HashMap in the order it is iterated in.
SnapshotToJson(snap, site_order) ==
    JObj(<< <<FieldTotalAllocations, JNum(snap.total_allocations)>>,
            <<FieldTotalDeallocations, JNum(snap.total_deallocations)>>,
            <<FieldTotalBytesAllocated, JNum(snap.total_bytes_allocated)>>,
            <<FieldPeakMemory, JNum(snap.peak_memory)>>,
            <<FieldCurrentMemory, JNum(snap.current_memory)>>,
            <<FieldAllocationSites,
              JObj([i \in 1..Len(site_order) |->
                       <<site_order[i], SiteToJson(snap.allocation_sites[site_order[i]])>>])>>
         >>)

\* serde_json::to_string(&snapshot) and serde_json::to_string_pretty(&snapshot)
to_string(snap, site_order) == WriteJson(SnapshotToJson(snap, site_order), FALSE, 0)
to_string_pretty(snap, site_order) == WriteJson(SnapshotToJson(snap, site_order), TRUE, 0)

\* What a parser returns when it fails.
ParseFail == [ok |-> FALSE, value |-> JNum(0), next |-> 0]
Parsed(value, next) == [ok |-> TRUE, value |-> value, next |-> next]

RECURSIVE SkipWhitespace(_, _)
\* The position of the first character at or after i that is not whitespace.
SkipWhitespace(s, i) ==
    IF i <= Len(s) /\ IsWhitespace(s[i]) THEN SkipWhitespace(s, i + 1) ELSE i

IsDigit(c) == \E d \in 1..10 : DigitChars[d] = c
DigitValue(c) == (CHOOSE d \in 1..10 : DigitChars[d] = c) - 1

RECURSIVE DigitsEnd(_, _)
\* The position after the digits that start at i.
DigitsEnd(s, i) == IF i <= Len(s) /\ IsDigit(s[i]) THEN DigitsEnd(s, i + 1) ELSE i

RECURSIVE NumberValue(_, _)
\* The number the digits of s spell, after the number n spelt so far.
NumberValue(digits, n) ==
    IF digits = <<>> THEN n
    ELSE NumberValue(Tail(digits), 10 * n + DigitValue(Head(digits)))

\* A number for a usize: digits without a leading zero, a sign, a fraction or
\* an exponent.
ParseNumber(s, i) ==
    LET end == DigitsEnd(s, i)
    IN  IF end = i THEN ParseFail
        ELSE IF s[i] = "0" /\ end > i + 1 THEN ParseFail
        ELSE IF end <= Len(s) /\ s[end] \in {".", "e", "E"} THEN ParseFail
        ELSE Parsed(JNum(NumberValue(SubSeq(s, i, end - 1), 0)), end)

\* The character an escape sequence stands for, "" for one that is none.
Unescape(c) ==
    CASE c = "\"" -> "\""
      [] c = "\\" -> "\\"
      [] c = "/" -> "/"
      [] c = "n" -> "\n"
      [] c = "t" -> "\t"
      [] c = "r" -> "\r"
      [] OTHER -> ""

RECURSIVE ParseStringBody(_, _, _)
\* The rest of a string after its opening quote, acc being what was read.
ParseStringBody(s, i, acc) ==
    IF i > Len(s) THEN ParseFail
    ELSE IF s[i] = "\"" THEN Parsed(JStr(acc), i + 1)
    ELSE IF s[i] = "\\"
    THEN IF i + 1 > Len(s) \/ Unescape(s[i + 1]) = "" THEN ParseFail
         ELSE ParseStringBody(s, i + 2, Append(acc, Unescape(s[i + 1])))
    ELSE IF CharCode(s[i]) < 32 THEN ParseFail
    ELSE ParseStringBody(s, i + 1, Append(acc, s[i]))

RECURSIVE ParseValue(_, _)
RECURSIVE ParseItems(_, _, _)
RECURSIVE ParseMembers(_, _, _)
\* serde_json's parser on the numbers, strings, arrays and objects of a
\* snapshot document; any other value fails the parse, as it fails the
\* deserialisation of a ProfileSnapshot.
ParseValue(s, i0) ==
    LET i == SkipWhitespace(s, i0)
    IN  IF i > Len(s) THEN ParseFail
        ELSE IF s[i] = "{"
        THEN LET j == SkipWhitespace(s, i + 1)
             IN  IF j <= Len(s) /\ s[j] = "}" THEN Parsed(JObj(<<>>), j + 1)
                 ELSE ParseMembers(s, j, <<>>)
        ELSE IF s[i] = "["
        THEN LET j == SkipWhitespace(s, i + 1)
             IN  IF j <= Len(s) /\ s[j] = "]" THEN Parsed(JArr(<<>>), j + 1)
                 ELSE ParseItems(s, j, <<>>)
        ELSE IF s[i] = "\"" THEN ParseStringBody(s, i + 1, <<>>)
        ELSE ParseNumber(s, i)

\* The items of an array from the item at i on, acc being those read.
ParseItems(s, i, acc) ==
    LET item == ParseValue(s, i)
        j == SkipWhitespace(s, item.next)
    IN  IF ~item.ok \/ j > Len(s) THEN ParseFail
        ELSE IF s[j] = "," THEN ParseItems(s, j + 1, Append(acc, item.value))
        ELSE IF s[j] = "]" THEN Parsed(JArr(Append(acc, item.value)), j + 1)
        ELSE ParseFail

\* The members of an object from the key at i on, acc being those read.
ParseMembers(s, i0, acc) ==
    LET i == SkipWhitespace(s, i0)
        key == IF i <= Len(s) /\ s[i] = "\"" THEN ParseStringBody(s, i + 1, <<>>)
               ELSE ParseFail
        colon == IF key.ok THEN SkipWhitespace(s, key.next) ELSE 0
        member == IF key.ok /\ colon <= Len(s) /\ s[colon] = ":"
                  THEN ParseValue(s, colon + 1)
                  ELSE ParseFail
        j == IF member.ok THEN SkipWhitespace(s, member.next) ELSE 0
        members == Append(acc, <<key.value.s, member.value>>)
    IN  IF ~member.ok \/ j > Len(s) THEN ParseFail
        ELSE IF s[j] = "," THEN ParseMembers(s, j + 1, members)
        ELSE IF s[j] = "}" THEN Parsed(JObj(members), j + 1)
        ELSE ParseFail

\* A field of a struct: the one member of the object with the name; a
\* missing field and a duplicate field are errors.
Field(v, name) ==
    LET idx == {i \in 1..Len(v.members) : v.members[i][1] = name}
    IN  IF Cardinality(idx) = 1
        THEN [ok |-> TRUE, value |-> v.members[CHOOSE i \in idx : TRUE][2]]
        ELSE [ok |-> FALSE, value |-> JNum(0)]

IsNumberField(v, name) == Field(v, name).ok /\ Field(v, name).value.type = "num"

\* #[derive(Deserialize)] for AllocationSite: whether v is one.
IsSiteJson(v) ==
    /\ v.type = "obj"
    /\ IsNumberField(v, FieldCount)
    /\ IsNumberField(v, FieldTotalBytes)
    /\ Field(v, FieldFrames).ok
    /\ Field(v, FieldFrames).value.type = "arr"
    /\ \A i \in 1..Len(Field(v, FieldFrames).value.items) :
           Field(v, FieldFrames).value.items[i].type = "str"

SiteFromJson(v) ==
    [count |-> Field(v, FieldCount).value.n,
     total_bytes |-> Field(v, FieldTotalBytes).value.n,
     frames |-> [i \in 1..Len(Field(v, FieldFrames).value.items) |->
                    Field(v, FieldFrames).value.items[i].s]]

\* Deserialize for HashMap<String, AllocationSite>: a key that occurs twice
\* keeps its last value.
SitesFromJson(v) ==
    LET keys == {v.members[i][1] : i \in 1..Len(v.members)}
        last(k) == CHOOSE i \in 1..Len(v.members) :
                       /\ v.members[i][1] = k
                       /\ \A j \in 1..Len(v.members) : v.members[j][1] = k => j <= i
    IN  [k \in keys |-> SiteFromJson(v.members[last(k)][2])]

\* #[derive(Deserialize)] for ProfileSnapshot: whether v is one.
IsSnapshotJson(v) ==
    /\ v.type = "obj"
    /\ IsNumberField(v, FieldTotalAllocations)
    /\ IsNumberField(v, FieldTotalDeallocations)
    /\ IsNumberField(v, FieldTotalBytesAllocated)
    /\ IsNumberField(v, FieldPeakMemory)
    /\ IsNumberField(v, FieldCurrentMemory)
    /\ Field(v, FieldAllocationSites).ok
    /\ Field(v, FieldAllocationSites).value.type = "obj"
    /\ \A i \in 1..Len(Field(v, FieldAllocationSites).value.members) :
           IsSiteJson(Field(v, FieldAllocationSites).value.members[i][2])

SnapshotFromJson(v) ==
    [taken |-> TRUE,
     total_allocations |-> Field(v, FieldTotalAllocations).value.n,
     total_deallocations |-> Field(v, FieldTotalDeallocations).value.n,
     total_bytes_allocated |-> Field(v, FieldTotalBytesAllocated).value.n,
     peak_memory |-> Field(v, FieldPeakMemory).value.n,
     current_memory |-> Field(v, FieldCurrentMemory).value.n,
     allocation_sites |-> SitesFromJson(Field(v, FieldAllocationSites).value)]

\* std::fs::read_to_string followed by serde_json::from_str::<ProfileSnapshot>:
\* Err for a file that is absent, is not one JSON value or is not a snapshot.
LoadFail == [ok |-> FALSE, snapshot |-> NoSnapshot]
from_str(data) ==
    LET parsed == ParseValue(data, 1)
    IN  IF data = NoFile THEN LoadFail
        ELSE IF ~parsed.ok THEN LoadFail
        ELSE IF SkipWhitespace(data, parsed.next) # Len(data) + 1 THEN LoadFail
        ELSE IF ~IsSnapshotJson(parsed.value) THEN LoadFail
        ELSE [ok |-> TRUE, snapshot |-> SnapshotFromJson(parsed.value)]


(* ------------------------------ rendering ------------------------------ *)

\* {:.2} of n / 1024.0 for an integer n: the sign, the integer part and two
\* decimals, rounded to nearest, ties to even.
FormatKb(n) ==
    LET magnitude == IF n < 0 THEN 0 - n ELSE n
        scaled == magnitude * 100
        quotient == scaled \div 1024
        remainder == scaled % 1024
        hundredths ==
            IF remainder > 512 \/ (remainder = 512 /\ quotient % 2 = 1)
            THEN quotient + 1
            ELSE quotient
    IN  (IF n < 0 THEN <<"-">> ELSE <<>>)
            \o Decimal(hundredths \div 100) \o <<".">>
            \o Decimal((hundredths % 100) \div 10) \o Decimal(hundredths % 10)

\* What the reporter does that is seen from outside it, in order: a line on
\* standard output, a line on standard error, a file written.
Println(text) == [ev |-> "println", text |-> text]
Eprintln(text) == [ev |-> "eprintln", text |-> text]
Saved(path) == [ev |-> "save", text |-> path]

TextHeader == <<"\n", "A", "l", "l", "o", "c", "a", "t", "i", "o", "n", " ", "P", "r", "o", "f", "i", "l", "e", ":">>
TextNoAllocations == <<" ", " ", "N", "o", " ", "a", "l", "l", "o", "c", "a", "t", "i", "o", "n", "s", " ", "r", "e", "c", "o", "r", "d", "e", "d", ".">>

\* print_text_report: the line of one entry.
TextEntryLine(site, verbosity) ==
    site.name \o <<":", " ">> \o Decimal(site.count)
        \o (IF verbosity >= 1 THEN <<" ", "(">> \o FormatKb(site.total_bytes) \o <<" ", "K", "B", ")">>
            ELSE <<>>)
        \o (IF verbosity >= 2 /\ site.frames # <<>>
            THEN <<" ", "[">> \o site.frames[1] \o <<"]">>
            ELSE <<>>)

\* print_text_report: the lines of the stack trace of one entry.
TextStackLines(site) ==
    LET shown == IF Len(site.frames) - 1 < 5 THEN Len(site.frames) - 1 ELSE 5
    IN  [i \in 1..shown |->
            Println(<<" ", " ">> \o (IF i = 1 THEN <<"U+2514", "U+2500">> ELSE <<" ", " ">>) \o <<" ">>
                        \o site.frames[i + 1])]
        \o (IF Len(site.frames) > 6
            THEN <<Println(<<" ", " ", " ", " ", " ", ".", ".", ".", " ">> \o Decimal(Len(site.frames) - 6)
                               \o <<" ", "m", "o", "r", "e", " ", "f", "r", "a", "m", "e", "s">>)>>
            ELSE <<>>)

RECURSIVE TextEntries(_, _)
\* print_text_report: the loop over the prepared sites.
TextEntries(sites, verbosity) ==
    IF sites = <<>> THEN <<>>
    ELSE <<Println(TextEntryLine(Head(sites), verbosity))>>
             \o (IF verbosity >= 3 THEN TextStackLines(Head(sites)) ELSE <<>>)
             \o TextEntries(Tail(sites), verbosity)

\* print_text_report from its header on.
RenderText(sites, opts) ==
    <<Println(TextHeader)>> \o TextEntries(sites, opts.verbosity)
        \o (IF sites = <<>> THEN <<Println(TextNoAllocations)>> ELSE <<>>)

\* alloc_data as it would be if total_bytes were set at every verbosity.
JsonEntryWithBytes(site, verbosity) ==
    JObj(<< <<<<"c", "o", "u", "n", "t">>, JNum(site.count)>>, <<<<"f", "u", "n", "c", "t", "i", "o", "n">>, JStr(site.name)>> >>
         \o (IF verbosity >= 2 /\ site.frames # <<>>
             THEN << <<<<"l", "o", "c", "a", "t", "i", "o", "n">>, JStr(site.frames[1])>> >>
             ELSE <<>>)
         \o (IF verbosity >= 3
             THEN << <<<<"s", "t", "a", "c", "k", "_", "t", "r", "a", "c", "e">>,
                       JArr([i \in 1..Len(site.frames) |-> JStr(site.frames[i])])>> >>
             ELSE <<>>)
         \o << <<<<"t", "o", "t", "a", "l", "_", "b", "y", "t", "e", "s">>, JNum(site.total_bytes)>> >>)

\* print_json_report: alloc_data of one entry.  The members of a serde_json
\* map are kept in the order of their keys.
JsonEntry(site, verbosity) ==
    JObj(<< <<<<"c", "o", "u", "n", "t">>, JNum(site.count)>>, <<<<"f", "u", "n", "c", "t", "i", "o", "n">>, JStr(site.name)>> >>
         \o (IF verbosity >= 2 /\ site.frames # <<>>
             THEN << <<<<"l", "o", "c", "a", "t", "i", "o", "n">>, JStr(site.frames[1])>> >>
             ELSE <<>>)
         \o (IF verbosity >= 3
             THEN << <<<<"s", "t", "a", "c", "k", "_", "t", "r", "a", "c", "e">>,
                       JArr([i \in 1..Len(site.frames) |-> JStr(site.frames[i])])>> >>
             ELSE <<>>)
         \o (IF verbosity >= 1
             THEN << <<<<"t", "o", "t", "a", "l", "_", "b", "y", "t", "e", "s">>, JNum(site.total_bytes)>> >>
             ELSE <<>>))

\* print_json_report from the preparation of the sites on.
RenderJson(sites, snap, opts) ==
    <<Println(WriteJson(
        JObj(<< <<<<"a", "l", "l", "o", "c", "a", "t", "i", "o", "n", "s">>,
                  JArr([i \in 1..Len(sites) |-> JsonEntry(sites[i], opts.verbosity)])>>,
                <<<<"s", "u", "m", "m", "a", "r", "y">>,
                  JObj(<< <<FieldCurrentMemory, JNum(snap.current_memory)>>,
                          <<FieldPeakMemory, JNum(snap.peak_memory)>>,
                          <<FieldTotalAllocations, JNum(snap.total_allocations)>>,
                          <<FieldTotalBytesAllocated, JNum(snap.total_bytes_allocated)>>,
                          <<FieldTotalDeallocations, JNum(snap.total_deallocations)>>
                       >>)>> >>),
        TRUE, 0))>>

ComparisonHeader == <<"\n", "A", "l", "l", "o", "c", "a", "t", "i", "o", "n", " ", "C", "o", "m", "p", "a", "r", "i", "s", "o", "n", ":">>
ComparisonLegend == <<"C", "u", "r", "r", "e", "n", "t", " ", "v", "s", " ", "B", "a", "s", "e", "l", "i", "n", "e">>
ComparisonReadError == <<"E", "r", "r", "o", "r", ":", " ", "F", "a", "i", "l", "e", "d", " ", "t", "o", " ", "r", "e", "a", "d", " ", "c", "o", "m", "p", "a", "r", "i", "s", "o", "n", " ", "f", "i", "l", "e">>
ComparisonParseError == <<"E", "r", "r", "o", "r", ":", " ", "F", "a", "i", "l", "e", "d", " ", "t", "o", " ", "p", "a", "r", "s", "e", " ", "c", "o", "m", "p", "a", "r", "i", "s", "o", "n", " ", "f", "i", "l", "e">>
ParseFailure == <<"F", "a", "i", "l", "e", "d", " ", "t", "o", " ", "p", "a", "r", "s", "e", " ", "p", "r", "o", "f", "i", "l", "i", "n", "g", " ", "d", "a", "t", "a">>
SaveNotice == <<"U+2713", " ", "P", "r", "o", "f", "i", "l", "i", "n", "g", " ", "d", "a", "t", "a", " ", "s", "a", "v", "e", "d">>

\* print_comparison_report: baseline_map.entry(key).and_modify(..).or_insert(..)
InsertBaseline(baseline_map, key, site) ==
    [k \in DOMAIN baseline_map \cup {key} |->
        IF k # key THEN baseline_map[k]
        ELSE IF key \in DOMAIN baseline_map
        THEN [count |-> baseline_map[key].count + site.count,
              total_bytes |-> baseline_map[key].total_bytes + site.total_bytes]
        ELSE [count |-> site.count, total_bytes |-> site.total_bytes]]

\* print_comparison_report: the body of the loop over the baseline sites.
VisitBaseline(baseline_map, site, group_by) ==
    IF site.frames = <<>> THEN baseline_map
    ELSE InsertBaseline(baseline_map, GroupKey(site.frames[1], group_by), site)

RECURSIVE GroupBaseline(_, _, _, _)
\* print_comparison_report: the loop that builds baseline_map.
GroupBaseline(sites, site_order, group_by, baseline_map) ==
    IF site_order = <<>> THEN baseline_map
    ELSE GroupBaseline(sites, Tail(site_order), group_by,
                       VisitBaseline(baseline_map, sites[Head(site_order)], group_by))

\* baseline_map for the sites of the comparison snapshot.  Its sums do not
\* depend on the order in which the sites are visited.
BaselineMap(sites, group_by) ==
    GroupBaseline(sites, CHOOSE order \in IterationOrders(DOMAIN sites) : TRUE,
                  group_by, <<>>)

\* count_str as it would be without the sign of the difference.
CountStrUnsigned(count_diff) ==
    IF count_diff = 0 THEN <<"U+00B1", "0">>
    ELSE Decimal(IF count_diff < 0 THEN 0 - count_diff ELSE count_diff)

\* print_comparison_report: count_str and bytes_str.
CountStr(count_diff) ==
    IF count_diff > 0 THEN <<"+">> \o Decimal(count_diff)
    ELSE IF count_diff < 0 THEN <<"-">> \o Decimal(0 - count_diff)
    ELSE <<"U+00B1", "0">>
BytesStr(bytes_diff) ==
    IF bytes_diff > 0 THEN <<"(", "+">> \o FormatKb(bytes_diff) \o <<" ", "K", "B", ")">>
    ELSE IF bytes_diff < 0 THEN <<"(">> \o FormatKb(bytes_diff) \o <<" ", "K", "B", ")">>
    ELSE <<"(", "U+00B1", "0", " ", "K", "B", ")">>

\* print_comparison_report: the line of one entry of current_sites.
ComparisonLine(site, baseline_map) ==
    IF site.name \in DOMAIN baseline_map
    THEN site.name \o <<":", " ">> \o Decimal(baseline_map[site.name].count) \o <<" ", "U+2192", " ">>
             \o Decimal(site.count) \o <<" ">>
             \o CountStr(site.count - baseline_map[site.name].count) \o <<" ">>
             \o BytesStr(site.total_bytes - baseline_map[site.name].total_bytes)
    ELSE site.name \o <<":", " ">> \o Decimal(site.count) \o <<" ", "[", "N", "E", "W", "]", " ", "(">>
             \o FormatKb(site.total_bytes) \o <<" ", "K", "B", ")">>

\* print_comparison_report: the line of a site of baseline_map that is not in
\* current_sites.
RemovedLine(name, baseline_map) ==
    name \o <<":", " ">> \o Decimal(baseline_map[name].count) \o <<" ", "[", "R", "E", "M", "O", "V", "E", "D", "]", " ", "(">>
        \o FormatKb(baseline_map[name].total_bytes) \o <<" ", "K", "B", ")">>

\* print_comparison_report after the load of the comparison file.
\* baseline_order is the order in which baseline_map is iterated.
RenderComparison(current_sites, baseline_map, baseline_order) ==
    LET removed == SelectSeq(baseline_order,
                       LAMBDA name : \A i \in 1..Len(current_sites) :
                                         current_sites[i].name # name)
    IN  <<Println(ComparisonHeader), Println(ComparisonLegend)>>
            \o [i \in 1..Len(current_sites) |->
                   Println(ComparisonLine(current_sites[i], baseline_map))]
            \o [i \in 1..Len(removed) |-> Println(RemovedLine(removed[i], baseline_map))]


(* ----------------------- the cargo subcommand -------------------------- *)

\* The most sites in the table of a profiled process.
MaxSites == 2
\* The values of the options --min-count, --threshold-bytes and --limit.
MinCount == 10
ThresholdBytes == 5120
Limit == 1
\* The text of the option --filter.
FilterText == <<"S">>

\* The frame lists of the sites of the profiled process, as extract_frames
\* renders them: two functions of one module and one file, and main.
FrameF == Location(SymAt(<<"p", ":", ":", "s", ":", ":", "f">>, <<"d", "/", "x">>, 1))
FrameG == Location(SymAt(<<"p", ":", ":", "s", ":", ":", "g">>, <<"d", "/", "x">>, 2))
FrameM == Location(SymAt(NameMain, <<"y">>, 3))
ReportStacks == {<<FrameF>>, <<FrameG, FrameM>>, <<FrameM>>}

\* The number of allocations made at a site, and the size of each of them.
SiteCounts == {5, 10}
AllocationSize(frames) == IF frames[1] = FrameM THEN 1024 ELSE 512

RECURSIVE SumOf(_, _)
\* The sum of f[x] over the x of a set.
SumOf(f, set) ==
    IF set = {} THEN 0
    ELSE LET x == CHOOSE y \in set : TRUE IN f[x] + SumOf(f, set \ {x})

\* The snapshot of a process that made count[frames] allocations at each of
\* the stacks, and freed one of them at each.
SnapshotOf(stacks, count) ==
    LET bytes == [frames \in stacks |-> count[frames] * AllocationSize(frames)]
        sizes == [frames \in stacks |-> AllocationSize(frames)]
        of(key) == CHOOSE frames \in stacks : SiteKey(frames) = key
    IN  [taken |-> TRUE,
         total_allocations |-> SumOf(count, stacks),
         total_deallocations |-> Cardinality(stacks),
         total_bytes_allocated |-> SumOf(bytes, stacks),
         peak_memory |-> SumOf(bytes, stacks),
         current_memory |-> SumOf(bytes, stacks) - SumOf(sizes, stacks),
         allocation_sites |->
             [key \in {SiteKey(frames) : frames \in stacks} |->
                 [count |-> count[of(key)], total_bytes |-> bytes[of(key)],
                  frames |-> of(key)]]]

\* The snapshots a profiled process ends with.
TargetSnapshots ==
    UNION {{SnapshotOf(stacks, count) : count \in [stacks -> SiteCounts]} :
              stacks \in {s \in SUBSET ReportStacks : Cardinality(s) <= MaxSites}}

\* The snapshot an earlier run has saved with --save.
BaselineSnapshot ==
    SnapshotOf({<<FrameF>>, <<FrameG, FrameM>>},
               [frames \in {<<FrameF>>, <<FrameG, FrameM>>} |->
                   IF frames = <<FrameF>> THEN 10 ELSE 5])

\* A file that is not a snapshot: a JSON object without the fields.
MalformedFile == <<"{", "}">>

\* The file at the --compare path: none, one that is not a snapshot, or what
\* save_snapshot wrote there.
BaselineFiles ==
    {NoFile, MalformedFile,
     to_string_pretty(BaselineSnapshot,
         CHOOSE order \in IterationOrders(DOMAIN BaselineSnapshot.allocation_sites) :
             TRUE)}

\* The ReportOptions main builds from the command line: those of the runs
\* without --compare, and those of the runs with it, whose output does not
\* depend on the verbosity.
Verbosities == {0, 3}
ReportOptionsSet ==
    [verbosity : Verbosities, filter : {None, Some(FilterText)},
     format : {"Text", "Json"},
     min_count : {None, Some(MinCount)}, threshold_bytes : {None, Some(ThresholdBytes)},
     sort_by : {"Count", "Size", "Name"}, limit : {None, Some(Limit)},
     save : {None, Some("saved")}, compare : {None},
     group_by : {"Function", "Module", "File"}]
CompareOptionsSet ==
    [verbosity : {0}, filter : {None, Some(FilterText)},
     format : {"Text", "Json"},
     min_count : {None, Some(MinCount)}, threshold_bytes : {None, Some(ThresholdBytes)},
     sort_by : {"Count", "Size", "Name"}, limit : {None, Some(Limit)},
     save : {None, Some("saved")}, compare : {Some("base")},
     group_by : {"Function", "Module", "File"}]

\* The profiled process has taken the snapshot of write_report; the cargo
\* subcommand waits for it.  No file exists yet.
InitReportRun ==
    /\ InitProfiler
    /\ InitResolver
    /\ snapshot \in TargetSnapshots
    /\ phase = "exit"
    /\ options = DefaultOptions
    /\ files = [p \in Paths |-> NoFile]
    /\ output = <<>>
    /\ prepared = NotPrepared

\* The same, with whatever is at the --compare path.
InitCompareRun ==
    /\ InitProfiler
    /\ InitResolver
    /\ snapshot \in TargetSnapshots
    /\ phase = "exit"
    /\ options = DefaultOptions
    /\ files \in {[p \in Paths |-> IF p = "base" THEN base ELSE NoFile] :
                     base \in BaselineFiles}
    /\ output = <<>>
    /\ prepared = NotPrepared

\* AllocationProfiler::write_report after get_snapshot: the snapshot is
\* serialised and written to the path CARGO_ALLOC_PROFILE_OUTPUT names.
write_report(site_order) ==
    /\ phase = "exit"
    /\ files' = [files EXCEPT !["out"] = to_string(snapshot, site_order)]
    /\ phase' = "exported"
    /\ UNCHANGED <<profiler_vars, resolver_vars, snapshot, options, output, prepared>>

\* run_command: the read of the output file, its parse and its removal.
load_output ==
    /\ phase = "exported"
    /\ LET loaded == from_str(files["out"])
       IN  IF loaded.ok
           THEN /\ snapshot' = loaded.snapshot
                /\ phase' = "loaded"
                /\ output' = output
           ELSE /\ output' = Append(output, Eprintln(ParseFailure))
                /\ phase' = "failed"
                /\ UNCHANGED snapshot
    /\ files' = [files EXCEPT !["out"] = NoFile]
    /\ UNCHANGED <<profiler_vars, resolver_vars, options, prepared>>

\* print_comparison_report once the comparison file is read and parsed and
\* the current sites are prepared.
compare_loaded(compare_snapshot, compare_file, current_sites, group_by, baseline_order) ==
    IF ~compare_snapshot.ok
    THEN [events |-> <<Eprintln(IF files[compare_file] = NoFile
                                THEN ComparisonReadError
                                ELSE ComparisonParseError)>>,
          prepared |-> NotPrepared]
    ELSE [events |->
              RenderComparison(current_sites,
                  BaselineMap(compare_snapshot.snapshot.allocation_sites, group_by),
                  baseline_order),
          prepared |-> [done |-> TRUE, sites |-> current_sites]]

\* Reporter::print_comparison_report: what it prints and the current_sites
\* it prepares.
print_comparison_report(snap, compare_file, opts, site_order, group_order, baseline_order) ==
    compare_loaded(from_str(files[compare_file]), compare_file,
                   prepare_sites(snap, opts, site_order, group_order),
                   opts.group_by, baseline_order)

\* The keys of baseline_map for a loaded comparison file and a grouping.
BaselineKeys(compare_snapshot, group_by) ==
    IF ~compare_snapshot.ok THEN {}
    ELSE DOMAIN BaselineMap(compare_snapshot.snapshot.allocation_sites, group_by)

\* print_text_report and print_json_report where they return after the
\* comparison report.
report_comparison(report) ==
    /\ output' = output \o report.events
    /\ prepared' = report.prepared
    /\ UNCHANGED files

\* print_text_report and print_json_report after the test of options.compare:
\* the save, and the rendering of the prepared sites.
report_sites(opts, sites, save_order) ==
    /\ files' = IF opts.save # None
                THEN [files EXCEPT ![Unwrap(opts.save)] =
                         to_string_pretty(snapshot, save_order)]
                ELSE files
    /\ output' = output
           \o (IF opts.save # None
               THEN <<Saved(Unwrap(opts.save)), Eprintln(SaveNotice)>>
               ELSE <<>>)
           \o (IF opts.format = "Text" THEN RenderText(sites, opts)
               ELSE RenderJson(sites, snapshot, opts))
    /\ prepared' = [done |-> TRUE, sites |-> sites]

\* Reporter::print_report: print_text_report and print_json_report, which
\* differ in the rendering only.  The four orders are those in which the
\* site table, the map grouped, baseline_map and, in save_snapshot, the site
\* table again are iterated.
print_report(opts, site_order, group_order, baseline_order, save_order) ==
    /\ phase = "loaded"
    /\ options' = opts
    /\ phase' = "reported"
    /\ IF opts.compare # None
       THEN report_comparison(
                print_comparison_report(snapshot, Unwrap(opts.compare), opts,
                                        site_order, group_order, baseline_order))
       ELSE report_sites(opts, prepare_sites(snapshot, opts, site_order, group_order),
                         save_order)
    /\ UNCHANGED <<profiler_vars, resolver_vars, snapshot>>

\* run_command once the target has succeeded: Ok(()), after the report and
\* after a failure to read or to parse the profiling data alike.
run_command(reached) == "Ok"

\* main: process::exit(1) when the command returned an Err; otherwise main
\* returns and the process ends with status 0.
exit_status(result) == IF result = "Err" THEN 1 ELSE 0
Exited(status) == IF status = 0 THEN "exited 0" ELSE "exited 1"

\* The end of main after print_report or after the failure to load the
\* profiling data.
main_return ==
    /\ phase \in {"reported", "failed"}
    /\ phase' = Exited(exit_status(run_command(phase)))
    /\ UNCHANGED <<profiler_vars, resolver_vars, snapshot, options, files, output,
                   prepared>>

\* A run of cargo alloc-profile without --compare.
NextReport ==
    \/ \E site_order \in IterationOrders(DOMAIN snapshot.allocation_sites) :
           write_report(site_order)
    \/ load_output
    \/ /\ phase = "loaded"
       /\ \E opts \in ReportOptionsSet,
             site_order \in IterationOrders(DOMAIN snapshot.allocation_sites) :
           \E group_order \in
                  IterationOrders(DOMAIN Grouped(snapshot, opts, site_order)),
              save_order \in
                  IF opts.save = None THEN {<<>>}
                  ELSE IterationOrders(DOMAIN snapshot.allocation_sites) :
               print_report(opts, site_order, group_order, <<>>, save_order)
    \/ main_return

SpecReport == InitReportRun /\ [][NextReport]_vars

\* A run of cargo alloc-profile --compare.
NextCompare ==
    \/ \E site_order \in IterationOrders(DOMAIN snapshot.allocation_sites) :
           write_report(site_order)
    \/ load_output
    \/ /\ phase = "loaded"
       /\ \E opts \in CompareOptionsSet,
             site_order \in IterationOrders(DOMAIN snapshot.allocation_sites) :
           \E group_order \in
                  IterationOrders(DOMAIN Grouped(snapshot, opts, site_order)),
              baseline_order \in
                  IterationOrders(
                      BaselineKeys(from_str(files[Unwrap(opts.compare)]),
                                   opts.group_by)) :
               print_report(opts, site_order, group_order, baseline_order, <<>>)
    \/ main_return

SpecCompare == InitCompareRun /\ [][NextCompare]_vars

(* ----------------------- the structured report ------------------------ *)

\* The verbosities that change the entries of the structured report.
MaxVerbosity == 3

\* The options of the runs with --output json: every verbosity, with and
\* without each filter, minimum and limit.
JsonOptionsSet ==
    [verbosity : 0..MaxVerbosity, filter : {None, Some(FilterText)},
     format : {"Json"},
     min_count : {None, Some(MinCount)}, threshold_bytes : {None, Some(ThresholdBytes)},
     sort_by : {"Count"}, limit : {None, Some(Limit)},
     save : {None}, compare : {None},
     group_by : {"Function"}]

\* A run of cargo alloc-profile --output json.
NextJson ==
    \/ \E site_order \in IterationOrders(DOMAIN snapshot.allocation_sites) :
           write_report(site_order)
    \/ load_output
    \/ /\ phase = "loaded"
       /\ \E opts \in JsonOptionsSet,
             site_order \in IterationOrders(DOMAIN snapshot.allocation_sites) :
           \E group_order \in
                  IterationOrders(DOMAIN Grouped(snapshot, opts, site_order)) :
               print_report(opts, site_order, group_order, <<>>, <<>>)
    \/ main_return

SpecJson == InitReportRun /\ [][NextJson]_vars

(* ------------------------ the grouping of a report --------------------- *)

\* The qualified names of the functions at the first frame of a site, as
\* their `::`-separated segments; the last has a tuple as its generic
\* parameter.
GroupingNames ==
    {<< <<"f">> >>,
     << <<"p">>, <<"f">> >>,
     << <<"p">>, <<"s">>, <<"f">> >>,
     << <<"p">>, <<"s">>, <<"t">>, <<"f">> >>,
     << <<"p">>, <<"f", "<", "(", "u", ")", ">">> >>}

\* The directories of the source files.
GroupingDirs == {<<>>, <<"d", "/">>, <<"c", ":", "\\", "d", "\\">>}

\* What symbol.name(), symbol.filename() and symbol.lineno() give for the
\* first frame of a site.
GroupingSymbols ==
    [segments : GroupingNames, dir : GroupingDirs, file : {<<"x">>}, line : {1}]

RECURSIVE QualifiedName(_)
\* The segments of a name joined with `::`.
QualifiedName(segments) ==
    IF Len(segments) = 1 THEN segments[1]
    ELSE segments[1] \o <<":", ":">> \o QualifiedName(Tail(segments))

\* The frame extract_frames makes of a symbol.
GroupingFrame(symbol) ==
    Location(SymAt(QualifiedName(symbol.segments), symbol.dir \o symbol.file,
                   symbol.line))

\* The snapshots of the processes that allocated at one or two of the
\* symbols, GroupingCount times at each.
GroupingCount == 5
GroupingSnapshots ==
    {SnapshotOf(stacks, [frames \in stacks |-> GroupingCount]) :
        stacks \in {{<<GroupingFrame(symbol)>> : symbol \in symbols} :
                       symbols \in {s \in SUBSET GroupingSymbols :
                                       Cardinality(s) \in 1..MaxSites}}}

\* The options of the runs that only choose how to group and sort.
GroupingOptionsSet ==
    [verbosity : {0}, filter : {None}, format : {"Text"}, min_count : {None},
     threshold_bytes : {None}, sort_by : {"Count", "Size", "Name"}, limit : {None},
     save : {None}, compare : {None}, group_by : {"Function", "Module", "File"}]

InitGroupingRun ==
    /\ InitProfiler
    /\ InitResolver
    /\ snapshot \in GroupingSnapshots
    /\ phase = "exit"
    /\ options = DefaultOptions
    /\ files = [p \in Paths |-> NoFile]
    /\ output = <<>>
    /\ prepared = NotPrepared

\* A run of cargo alloc-profile --group-by.
NextGrouping ==
    \/ \E site_order \in IterationOrders(DOMAIN snapshot.allocation_sites) :
           write_report(site_order)
    \/ load_output
    \/ /\ phase = "loaded"
       /\ \E opts \in GroupingOptionsSet,
             site_order \in IterationOrders(DOMAIN snapshot.allocation_sites) :
           \E group_order \in
                  IterationOrders(DOMAIN Grouped(snapshot, opts, site_order)) :
               print_report(opts, site_order, group_order, <<>>, <<>>)
    \/ main_return

SpecGrouping == InitGroupingRun /\ [][NextGrouping]_vars

(* ----------------------- the export of the report ---------------------- *)

\* What std::env::var("CARGO_ALLOC_PROFILE_OUTPUT") returns: the path when the
\* variable is set, an error when it is not.
OutputPaths == {None, Some("out")}

\* A thread that is in a call of write_report.
Exporting(t) == stack[t] # <<>> /\ stack[t][1].fn = "write_report"

\* write_report: the call and the lookup of the variable.  The String of the
\* path is allocated by the lookup, before anything else is done.  The host
\* program exports from one thread at a time.
wr_call(t, output_path) ==
    /\ AtHost(t)
    /\ \A u \in Threads : ~Exporting(u)
    /\ calls' = calls + 1
    /\ Push(t, <<[fn |-> "write_report", pc |-> "var", output_path |-> output_path,
                  own_allocs |-> IF output_path = None THEN 0 ELSE 1]>>)
    /\ returned' = NoReturn
    /\ UNCHANGED <<PROFILING_ACTIVE, IN_ALLOCATOR, IN_PROFILER, counters,
                   allocation_sites, table_lock, snapshot, panicked>>
    /\ UNCHANGED <<report_vars, resolver_vars>>

\* write_report: if let Ok(output_path), and Self::disable() when it is.
wr_disable(t) ==
    /\ InFrame(t, "write_report", "var")
    /\ Top(t).own_allocs = 0
    /\ IF Top(t).output_path = None
       THEN Pop(t) /\ UNCHANGED PROFILING_ACTIVE
       ELSE /\ PROFILING_ACTIVE' = FALSE
            /\ SetTop(t, [Top(t) EXCEPT !.pc = "get_snapshot"])
    /\ returned' = NoReturn
    /\ UNCHANGED <<IN_ALLOCATOR, IN_PROFILER, counters, allocation_sites,
                   table_lock, snapshot, calls, panicked>>
    /\ UNCHANGED <<report_vars, resolver_vars>>

\* write_report: the call of Self::get_snapshot(); serde_json::to_string
\* follows its return.
wr_get_snapshot(t) ==
    /\ InFrame(t, "write_report", "get_snapshot")
    /\ stack' = [stack EXCEPT ![t] =
           <<[Top(t) EXCEPT !.pc = "to_string", !.own_allocs = 1],
             [fn |-> "get_snapshot", pc |-> "lock", snap |-> NoSnapshot,
              clone_allocs |-> 0]>>]
    /\ returned' = NoReturn
    /\ UNCHANGED <<PROFILING_ACTIVE, IN_ALLOCATOR, IN_PROFILER, counters,
                   allocation_sites, table_lock, snapshot, calls, panicked>>
    /\ UNCHANGED <<report_vars, resolver_vars>>

\* write_report: serde_json::to_string(&snapshot), std::fs::write, whose
\* result is dropped, and the return.  site_order is the order the HashMap
\* is iterated in, written whether the file system takes the file.
wr_write(t, site_order, written) ==
    /\ InFrame(t, "write_report", "to_string")
    /\ Top(t).own_allocs = 0
    /\ files' = IF written
                THEN [files EXCEPT ![Unwrap(Top(t).output_path)] =
                         to_string(snapshot, site_order)]
                ELSE files
    /\ Pop(t)
    /\ returned' = NoReturn
    /\ UNCHANGED <<PROFILING_ACTIVE, IN_ALLOCATOR, IN_PROFILER, counters,
                   allocation_sites, table_lock, snapshot, calls, panicked>>
    /\ UNCHANGED <<phase, options, output, prepared, resolver_vars>>

\* A host program that has or has not called enable(), allocates and exports.
InitExport ==
    /\ PROFILING_ACTIVE \in BOOLEAN
    /\ IN_ALLOCATOR = [t \in Threads |-> FALSE]
    /\ IN_PROFILER = [t \in Threads |-> FALSE]
    /\ total_allocations = 0
    /\ total_deallocations = 0
    /\ total_bytes_allocated = 0
    /\ peak_memory = 0
    /\ current_memory = 0
    /\ allocation_sites = <<>>
    /\ table_lock = 0
    /\ stack = [t \in Threads |-> <<>>]
    /\ returned = NoReturn
    /\ calls = 0
    /\ panicked = FALSE
    /\ snapshot = NoSnapshot
    /\ InitReport
    /\ InitResolver

StepExport(t) ==
    \/ \E size \in CallSizes(t), backtrace \in CallBacktraces(t), ok \in BOOLEAN :
           alloc(t, size, backtrace, ok)
    \/ ra_check_active(t)
    \/ ra_total_allocations(t)
    \/ ra_total_bytes_allocated(t)
    \/ ra_current_memory(t)
    \/ ra_load_peak(t)
    \/ ra_update_peak(t)
    \/ ra_resolve(t)
    \/ ra_lock(t)
    \/ ra_entry(t)
    \/ ra_insert(t)
    \/ gs_lock(t)
    \/ gs_load(t)
    \/ gs_return(t)
    \/ \E output_path \in OutputPaths : wr_call(t, output_path)
    \/ wr_disable(t)
    \/ wr_get_snapshot(t)
    \/ \E site_order \in IterationOrders(DOMAIN snapshot.allocation_sites),
          written \in BOOLEAN :
           wr_write(t, site_order, written)

NextExport == \E t \in Threads : StepExport(t)

SpecExport == InitExport /\ [][NextExport]_vars

(* --------------------- one call of a running program ------------------- *)

\* What the host program has done before the call: at most one allocation of
\* size 1 in main, at most one of size MaxSize in work, and at most the
\* deallocation of the former, all recorded.
PriorHistories ==
    {h \in [main : 0..1, work : 0..1, freed : 0..1] : h.freed <= h.main}

\* The site table after the allocations of a history.
PriorSites(h) ==
    [key \in {SiteKey(extract_frames(resolve("main"))) : i \in 1..h.main}
                 \cup {SiteKey(extract_frames(resolve("work"))) : i \in 1..h.work} |->
        IF key = SiteKey(extract_frames(resolve("main")))
        THEN [count |-> 1, total_bytes |-> 1,
              frames |-> extract_frames(resolve("main"))]
        ELSE [count |-> 1, total_bytes |-> MaxSize,
              frames |-> extract_frames(resolve("work"))]]

\* No call is in progress; get_snapshot has just returned; profiling is
\* enabled or not; one call of the host program is to come.
InitCall ==
    /\ PROFILING_ACTIVE \in BOOLEAN
    /\ IN_ALLOCATOR = [t \in Threads |-> FALSE]
    /\ IN_PROFILER = [t \in Threads |-> FALSE]
    /\ \E h \in PriorHistories :
           /\ total_allocations = h.main + h.work
           /\ total_deallocations = h.freed
           /\ total_bytes_allocated = h.main + h.work * MaxSize
           /\ peak_memory = h.main + h.work * MaxSize
           /\ current_memory = h.main + h.work * MaxSize - h.freed
           /\ allocation_sites = PriorSites(h)
           /\ snapshot =
                  [taken |-> TRUE, total_allocations |-> h.main + h.work,
                   total_deallocations |-> h.freed,
                   total_bytes_allocated |-> h.main + h.work * MaxSize,
                   peak_memory |-> h.main + h.work * MaxSize,
                   current_memory |-> h.main + h.work * MaxSize - h.freed,
                   allocation_sites |-> PriorSites(h)]
    /\ table_lock = 0
    /\ stack = [t \in Threads |-> <<>>]
    /\ returned = NoReturn
    /\ calls = MaxCalls - 1
    /\ panicked = FALSE
    /\ InitReport
    /\ InitResolver

StepCall(t) ==
    \/ \E size \in CallSizes(t), backtrace \in CallBacktraces(t), ok \in BOOLEAN :
           alloc(t, size, backtrace, ok)
    \/ \E size \in CallSizes(t) : dealloc(t, size)
    \/ \E old_size \in CallSizes(t), new_size \in CallSizes(t),
          backtrace \in CallBacktraces(t), ok \in BOOLEAN :
           realloc(t, old_size, new_size, backtrace, ok)
    \/ ra_check_active(t)
    \/ ra_total_allocations(t)
    \/ ra_total_bytes_allocated(t)
    \/ ra_current_memory(t)
    \/ ra_load_peak(t)
    \/ ra_update_peak(t)
    \/ ra_resolve(t)
    \/ ra_lock(t)
    \/ ra_entry(t)
    \/ ra_insert(t)
    \/ rd_check_active(t)
    \/ rd_total_deallocations(t)
    \/ rd_current_memory(t)

NextCall == \E t \in Threads : StepCall(t)

SpecCall == InitCall /\ [][NextCall]_vars

(* --------------------------- name cleaning ----------------------------- *)

\* The functions of a host program, by the segments of their qualified names:
\* p, p::f, p::g, p::h, p::head, p::hx and p::f<u>.
FunctionPaths ==
    {<< <<"p">> >>,
     << <<"p">>, <<"f">> >>,
     << <<"p">>, <<"g">> >>,
     << <<"p">>, <<"h">> >>,
     << <<"p">>, <<"h", "e", "a", "d">> >>,
     << <<"p">>, <<"h", "x">> >>,
     << <<"p">>, <<"f", "<", "u", ">">> >>}

\* The hex digits of the suffix the compiler appends to a name, of two builds;
\* none when the symbol carries no suffix.
HashDigits == {<<>>, <<"1", "a">>, <<"2", "B">>}

\* A function as a build names it.
FunctionSymbols == [path : FunctionPaths, hash : HashDigits]

\* symbol.name().to_string()
SymbolName(function) ==
    QualifiedName(function.path)
        \o (IF function.hash = <<>> THEN <<>> ELSE <<":", ":", "h">> \o function.hash)

\* A backtrace captured in function b called from function a.
CleanStack(a, b) ==
    << <<Sym(NameCapture)>>, <<Sym(SymbolName(b))>>, <<Sym(SymbolName(a))>> >>
CleanStacks == {CleanStack(a, b) : a \in FunctionSymbols, b \in FunctionSymbols}

InitClean ==
    /\ InitProfiler
    /\ snapshot = NoSnapshot
    /\ InitReport
    /\ raw_stack \in CleanStacks
    /\ kept_frames = NotExtracted

NextClean == \E backtrace \in CleanStacks : extract(backtrace)

SpecClean == InitClean /\ [][NextClean]_vars

(* ------------------------------ claims --------------------------------- *)

RECURSIVE SumOver(_, _)
\* The sum of count over the sites whose keys are in keys.
SumOver(sites, keys) ==
    IF keys = {} THEN 0
    ELSE LET k == CHOOSE x \in keys : TRUE
         IN  sites[k].count + SumOver(sites, keys \ {k})

SumCounts(sites) == SumOver(sites, DOMAIN sites)

\* No thread is inside a recording function.
NoRecordingInProgress ==
    \A t \in Threads : \A i \in 1..Depth(t) :
        stack[t][i].fn \notin {"record_allocation", "record_deallocation"}

\* C1: while no recording call is in progress, the sum of count over all
\* sites equals total_allocations.
C1_SiteCountsSumToTotal ==
    NoRecordingInProgress => SumCounts(allocation_sites) = total_allocations

\* C2: every snapshot get_snapshot returns has peak_memory >= current_memory.
C2_SnapshotPeakAtLeastCurrent ==
    snapshot.taken => snapshot.peak_memory >= snapshot.current_memory

Max(a, b) == IF a >= b THEN a ELSE b

\* C3: record_deallocation(size) leaves current_memory at
\* max(current_memory - size, 0).
C3_DeallocationSaturates ==
    [][\A t \in Threads :
          rd_current_memory(t) =>
              current_memory' = Max(current_memory - Top(t).size, 0)]_vars

\* C4: the allocation made by copying the site table never makes the thread
\* that holds the table lock wait for that lock.
C4_NoSelfDeadlock ==
    \A t \in Threads : ~(InFrame(t, "record_allocation", "lock") /\ table_lock = t)


\* Every recording function in progress is still at its check of the flag.
NoRecordingPastCheck ==
    \A t \in Threads : \A i \in 1..Depth(t) :
        stack[t][i].fn \in {"record_allocation", "record_deallocation"}
            => stack[t][i].pc = "active"

\* C5: enable and disable change no counter and no site, and while the flag
\* stays clear the calls made leave all five counters and the site table
\* unchanged (once the recordings begun while it was set have returned).
C5_DisabledChangesNothing ==
    [][/\ PROFILING_ACTIVE' # PROFILING_ACTIVE
            => UNCHANGED <<counters, allocation_sites>>
       /\ (~PROFILING_ACTIVE /\ ~PROFILING_ACTIVE' /\ NoRecordingPastCheck)
            => (NoRecordingPastCheck' /\ UNCHANGED <<counters, allocation_sites>>)
      ]_vars

\* An allocation made while disabled has returned unrecorded, after
\* allocations were recorded while enabled.
C5_Witness ==
    /\ ~PROFILING_ACTIVE
    /\ NoRecordingPastCheck
    /\ total_allocations > 0
    /\ allocation_sites # <<>>
    /\ returned.op = "alloc"
    /\ returned.result = Ptr
    /\ ~returned.counted_alloc

\* C6: every allocator call returns the system allocator's result unchanged
\* after forwarding to it exactly once, and a call the system allocator
\* failed changes no counter and no site.
C6_ProviderResultPassedThrough ==
    [][returned'.op # "none" =>
          /\ returned'.forwards = 1
          /\ returned'.result = returned'.provided
          /\ returned'.provided = NullPtr =>
                /\ ~returned'.counted_alloc
                /\ ~returned'.counted_dealloc
                /\ UNCHANGED <<counters, allocation_sites>>
      ]_vars

\* A call of the host program failed by the system allocator has returned
\* while profiling was enabled.
C6_Witness ==
    /\ PROFILING_ACTIVE
    /\ returned.op \in {"alloc", "realloc"}
    /\ returned.provided = NullPtr
    /\ returned.result = NullPtr
    /\ ~IN_ALLOCATOR[returned.thread]

\* The number of recordings of allocations thread t is in the middle of.
RecordingsActive(t) ==
    Cardinality({i \in 1..Depth(t) :
        stack[t][i].fn = "record_allocation" /\ stack[t][i].pc # "active"})

\* C7: an allocation a thread makes inside the recording logic changes no
\* counter and no site and starts no recording, a thread has at most one
\* recording active, and only a thread that is inside the interception layer
\* itself has a successful allocation returned without a call of
\* record_allocation, whatever the other threads are doing.
C7_ReentrantAllocationSkipped ==
    /\ [](\A t \in Threads : RecordingsActive(t) <= 1)
    /\ [][\A t \in Threads :
            /\ InRecording(t) =>
                 \A size \in Sizes, backtrace \in Backtraces, ok \in BOOLEAN :
                     alloc(t, size, backtrace, ok)
                         => UNCHANGED <<counters, allocation_sites, stack,
                                        IN_ALLOCATOR, IN_PROFILER, table_lock>>
            /\ ( /\ returned'.thread = t
                 /\ returned'.op = "alloc"
                 /\ returned'.provided = Ptr
                 /\ stack'[t] = stack[t] ) => IN_ALLOCATOR[t]
         ]_vars

\* A thread inside the recording logic has made an allocation that returned,
\* while another thread is in the middle of a recording.
C7_Witness ==
    \E t \in Threads, u \in Threads :
        /\ t # u
        /\ InRecording(t)
        /\ returned.thread = t
        /\ returned.op = "alloc"
        /\ returned.result = Ptr
        /\ RecordingsActive(u) = 1

\* C8 as stated: a deallocate call that returns unrecorded found the enabled
\* flag clear, the flag being its only guard.
C8_EnabledFlagOnlyGuard ==
    [][(returned'.op = "dealloc" /\ ~returned'.counted_dealloc)
          => ~PROFILING_ACTIVE]_vars

\* C8 as amended: a deallocate call made while the thread's IN_ALLOCATOR flag
\* is set is never recorded; one made while the flag is clear returns
\* unrecorded only when it finds the enabled flag clear.
C8_DeallocationGuards ==
    [][returned'.op = "dealloc" =>
          /\ IN_ALLOCATOR[returned'.thread] => ~returned'.counted_dealloc
          /\ (~IN_ALLOCATOR[returned'.thread] /\ ~returned'.counted_dealloc)
                => ~PROFILING_ACTIVE
      ]_vars

\* A deallocation made inside the recording logic has returned unrecorded
\* while profiling was enabled.
C8_Witness ==
    /\ PROFILING_ACTIVE
    /\ returned.op = "dealloc"
    /\ ~returned.counted_dealloc
    /\ IN_ALLOCATOR[returned.thread]
    /\ InRecording(returned.thread)

\* C9: the deallocation and the allocation of one resize are either both
\* counted or both not counted.
C9_ResizeCountedTogether ==
    returned.op = "realloc" => (returned.counted_dealloc <=> returned.counted_alloc)

\* A recording of an allocation that has left the loop over peak_memory.
PastPeakUpdate(frame) ==
    frame.fn = "record_allocation" /\ frame.pc \in {"resolve", "lock", "entry", "insert"}

\* C10: peak_memory never goes down, and once a recording has left its
\* compare-and-retry loop peak_memory is at least the value current_memory
\* had right after that allocation.
C10_PeakNeverLosesMaximum ==
    /\ [](\A t \in Threads : \A i \in 1..Depth(t) :
             PastPeakUpdate(stack[t][i]) => peak_memory >= stack[t][i].new_current)
    /\ [][peak_memory' >= peak_memory]_vars

\* Two threads record concurrently, and one is about to attempt the exchange
\* with an expected value that another thread has replaced by a higher peak
\* than this thread's new_current.
C10_Witness ==
    \E t \in Threads, u \in Threads :
        /\ t # u
        /\ RecordingsActive(t) = 1
        /\ InFrame(u, "record_allocation", "update_peak")
        /\ Top(u).peak < Top(u).new_current
        /\ Top(u).new_current < peak_memory

\* Thread t takes the step that ends its update of the table.
Inserting(t) ==
    InFrame(t, "record_allocation", "insert") /\ Len(stack'[t]) < Len(stack[t])

\* C11: recordings of the same signature by several threads lose no
\* increment: the table changes only in the step that ends a recording's
\* update, and that step leaves the signature's one site with the count it
\* had before plus 1 and the total_bytes it had before plus the size, and
\* every other site as it was.
C11_NoIncrementLost ==
    [][/\ allocation_sites' # allocation_sites => \E t \in Threads : Inserting(t)
       /\ \A t \in Threads : Inserting(t) =>
             LET key == SiteKey(Top(t).frames)
                 old == Entry(allocation_sites, key)
             IN  /\ DOMAIN allocation_sites' = DOMAIN allocation_sites \cup {key}
                 /\ allocation_sites'[key].count = old.count + 1
                 /\ allocation_sites'[key].total_bytes = old.total_bytes + Top(t).size
                 /\ \A k \in DOMAIN allocation_sites \ {key} :
                        allocation_sites'[k] = allocation_sites[k]
      ]_vars

\* Two threads record allocations of the same signature at the same time:
\* one holds the table lock and is in its update of the signature's site,
\* the other waits for the lock.
C11_Witness ==
    \E t \in Threads, u \in Threads :
        /\ t # u
        /\ InFrame(t, "record_allocation", "insert")
        /\ table_lock = t
        /\ InFrame(u, "record_allocation", "lock")
        /\ Top(u).frames = Top(t).frames

C13_SitesOnlyGrow ==
    /\ [](\A k \in DOMAIN allocation_sites : Len(allocation_sites[k].frames) <= 10)
    /\ [][\A k \in DOMAIN allocation_sites :
             /\ k \in DOMAIN allocation_sites'
             /\ allocation_sites'[k].frames = allocation_sites[k].frames
             /\ allocation_sites'[k].count >= allocation_sites[k].count
             /\ allocation_sites'[k].total_bytes >= allocation_sites[k].total_bytes]_vars

\* A site whose stack was deeper than the cap has been created with 10
\* frames and has been updated since.
C13_Witness ==
    \E k \in DOMAIN allocation_sites :
        /\ Len(allocation_sites[k].frames) = 10
        /\ allocation_sites[k].count = 2

\* The symbols of a raw stack that have a name, innermost first.
NamedSymbols(backtrace) == SelectSeq(Concat(backtrace), LAMBDA symbol : symbol.has_name)

\* The first n elements of a sequence, all of them when it has fewer.
Take(seq, n) == SubSeq(seq, 1, IF Len(seq) < n THEN Len(seq) ELSE n)

\* The stack from its first non-internal frame onward, in order, cut to the
\* first 10, each frame rendered as the resolver renders a kept frame.
FromFirstNonInternal(backtrace) ==
    LET symbols == NamedSymbols(backtrace)
        user == {i \in 1..Len(symbols) : ~IsInternalName(symbols[i].name)}
        first == IF user = {} THEN Len(symbols) + 1
                 ELSE CHOOSE i \in user : \A j \in user : i <= j
    IN  Take([i \in 1..(Len(symbols) - first + 1) |-> Location(symbols[first + i - 1])], 10)

\* C20: the frames extract_frames keeps are the stack from its first
\* non-internal frame onward, in order, cut to the first 10.
C20_KeptFromFirstNonInternal ==
    kept_frames.done => kept_frames.frames = FromFirstNonInternal(raw_stack)

\* What print_report puts out for the prepared sites when it does not compare.
ReportEvents(snap, opts, sites) ==
    (IF opts.save # None
     THEN <<Saved(Unwrap(opts.save)), Eprintln(SaveNotice)>>
     ELSE <<>>)
        \o (IF opts.format = "Text" THEN RenderText(sites, opts)
            ELSE RenderJson(sites, snap, opts))

\* C14: preparing and rendering the same snapshot with the same options gives
\* the same output whatever the iteration order of the site table and of the
\* map of groups is: the order of the entries (ties included) and the
\* representative frames of each group do not depend on it.
C14_OutputIndependentOfIterationOrder ==
    (phase = "reported" /\ options.compare = None) =>
        \A site_order \in IterationOrders(DOMAIN snapshot.allocation_sites) :
            \A group_order \in
                   IterationOrders(DOMAIN Grouped(snapshot, options, site_order)) :
                output = ReportEvents(snapshot, options,
                             prepare_sites(snapshot, options, site_order, group_order))

\* C15: loading a saved snapshot gives the snapshot that was saved, with the
\* same five counters and the same site table: the load of the end-of-run
\* export file gives the snapshot write_report exported, and the file at the
\* save path loads as the snapshot that print_report saved.
C15_LoadOfSaveIsIdentity ==
    /\ [][phase = "exported" => (phase' = "loaded" /\ snapshot' = snapshot)]_vars
    /\ []((phase = "reported" /\ options.save # None /\ options.compare = None) =>
              from_str(files[Unwrap(options.save)])
                  = [ok |-> TRUE, snapshot |-> snapshot])

\* A table of two sites, one of them with a two-frame signature, has been
\* exported, loaded and saved.
C15_Witness ==
    /\ phase = "reported"
    /\ options.save # None
    /\ files[Unwrap(options.save)] # NoFile
    /\ Cardinality(DOMAIN snapshot.allocation_sites) = 2
    /\ \E key \in DOMAIN snapshot.allocation_sites :
           /\ \E i \in 1..Len(key) : key[i] = "\n"
           /\ Len(snapshot.allocation_sites[key].frames) = 2

\* The sites of a snapshot that have the key under a grouping.
SitesOfGroup(snap, group_by, key) ==
    {k \in DOMAIN snap.allocation_sites :
        /\ snap.allocation_sites[k].frames # <<>>
        /\ GroupKey(snap.allocation_sites[k].frames[1], group_by) = key}

\* The keys of the groups of a snapshot.
GroupKeys(snap, group_by) ==
    {GroupKey(snap.allocation_sites[k].frames[1], group_by) :
        k \in {j \in DOMAIN snap.allocation_sites :
                  snap.allocation_sites[j].frames # <<>>}}

\* The summed count and the summed bytes of a group.
GroupCount(snap, group_by, key) ==
    SumOf([k \in DOMAIN snap.allocation_sites |-> snap.allocation_sites[k].count],
          SitesOfGroup(snap, group_by, key))
GroupBytes(snap, group_by, key) ==
    SumOf([k \in DOMAIN snap.allocation_sites |-> snap.allocation_sites[k].total_bytes],
          SitesOfGroup(snap, group_by, key))

\* The groups whose key has the filter text and whose sums reach the minimums.
GroupsPassing(snap, opts) ==
    {key \in GroupKeys(snap, opts.group_by) :
        /\ opts.filter # None =>
               Contains(to_lowercase(key), to_lowercase(Unwrap(opts.filter)))
        /\ opts.min_count # None =>
               GroupCount(snap, opts.group_by, key) >= Unwrap(opts.min_count)
        /\ opts.threshold_bytes # None =>
               GroupBytes(snap, opts.group_by, key) >= Unwrap(opts.threshold_bytes)}

\* C16: the minimum count and the minimum bytes are applied to the sums of a
\* group: without a limit, the reported groups are exactly those whose summed
\* count and summed bytes reach the minimums, and each is reported with the
\* sums over all sites of its key.
C16_MinimumsApplyToGroupSums ==
    (phase = "reported" /\ options.compare = None /\ options.limit = None) =>
        /\ {prepared.sites[i].name : i \in 1..Len(prepared.sites)}
               = GroupsPassing(snapshot, options)
        /\ \A i \in 1..Len(prepared.sites) :
               /\ prepared.sites[i].count
                      = GroupCount(snapshot, options.group_by, prepared.sites[i].name)
               /\ prepared.sites[i].total_bytes
                      = GroupBytes(snapshot, options.group_by, prepared.sites[i].name)

\* The names of the lines of a diff that are flagged removed.
RemovedSuffix == <<" ", "[", "R", "E", "M", "O", "V", "E", "D", "]", " ", "(">>
FlaggedRemoved(events) ==
    {name \in BaselineKeys(from_str(files["base"]), options.group_by) :
        \E i \in 1..Len(events) :
            /\ events[i].ev = "println"
            /\ Len(events[i].text) >= Len(name)
            /\ SubSeq(events[i].text, 1, Len(name)) = name
            /\ Contains(events[i].text, RemovedSuffix)}

\* C17: in a diff the baseline is grouped and filtered with the options of
\* the current snapshot, and the keys flagged removed are exactly those of
\* the baseline's grouped and filtered result for which the current snapshot
\* has no group: a key that both snapshots have is never flagged removed.
C17_RemovedOnlyWhenAbsentFromCurrent ==
    (phase = "reported" /\ options.compare # None /\ prepared.done) =>
        FlaggedRemoved(output)
            = GroupsPassing(from_str(files["base"]).snapshot,
                            [options EXCEPT !.limit = None])
                  \ GroupKeys(snapshot, options.group_by)

\* A difference with its sign: +n, -n or the plus-minus sign before 0.
SignedCount(diff) ==
    IF diff > 0 THEN <<"+">> \o Decimal(diff)
    ELSE IF diff < 0 THEN <<"-">> \o Decimal(0 - diff)
    ELSE <<"U+00B1", "0">>
SignedKb(diff) ==
    IF diff > 0 THEN <<"(", "+">> \o FormatKb(diff) \o <<" ", "K", "B", ")">>
    ELSE IF diff < 0 THEN <<"(", "-">> \o FormatKb(0 - diff) \o <<" ", "K", "B", ")">>
    ELSE <<"(", "U+00B1", "0", " ", "K", "B", ")">>

\* The diff line of an entry of the current result against the snapshot base.
DiffLine(site, base, group_by) ==
    IF site.name \in GroupKeys(base, group_by)
    THEN site.name \o <<":", " ">>
             \o Decimal(GroupCount(base, group_by, site.name))
             \o <<" ", "U+2192", " ">> \o Decimal(site.count) \o <<" ">>
             \o SignedCount(site.count - GroupCount(base, group_by, site.name))
             \o <<" ">>
             \o SignedKb(site.total_bytes - GroupBytes(base, group_by, site.name))
    ELSE site.name \o <<":", " ">> \o Decimal(site.count)
             \o <<" ", "[", "N", "E", "W", "]", " ", "(">>
             \o FormatKb(site.total_bytes) \o <<" ", "K", "B", ")">>

\* The lines of a diff after its two header lines, and the key of a line.
DiffLines(events) == [i \in 1..(Len(events) - 2) |-> events[i + 2].text]
LineKey(text) == SubSeq(text, 1, Find(text, <<":", " ">>) - 1)

\* C18: for every key of the current grouped result the diff shows, when the
\* baseline has the key, the baseline count, the current count and the signed
\* differences current - baseline of count and bytes, and flags the key new
\* when the baseline lacks it; every key of the current result or of the
\* baseline's groups is on exactly one line of the diff.
C18_DiffShowsSignedDeltas ==
    (phase = "reported" /\ options.compare # None /\ prepared.done) =>
        LET base == from_str(files[Unwrap(options.compare)]).snapshot
            lines == DiffLines(output)
            keys == {prepared.sites[i].name : i \in 1..Len(prepared.sites)}
                        \cup GroupKeys(base, options.group_by)
        IN  /\ Len(lines) >= Len(prepared.sites)
            /\ \A i \in 1..Len(prepared.sites) :
                   lines[i] = DiffLine(prepared.sites[i], base, options.group_by)
            /\ \A key \in keys :
                   Cardinality({i \in 1..Len(lines) : LineKey(lines[i]) = key}) = 1
            /\ \A i \in 1..Len(lines) : LineKey(lines[i]) \in keys

\* A diff with a key whose count grew by 5 over the baseline, a key the
\* baseline lacks, and a key the current result lacks.
C18_Witness ==
    /\ phase = "reported"
    /\ options.compare # None
    /\ Len(prepared.sites) = 2
    /\ \E i \in 3..Len(output) : Contains(output[i].text, <<" ", "+", "5", " ">>)
    /\ \E i \in 3..Len(output) : Contains(output[i].text, <<" ", "[", "N", "E", "W", "]", " ">>)
    /\ \E i \in 3..Len(output) : Contains(output[i].text, RemovedSuffix)

\* C19: whenever a save path is configured, print_report writes the current
\* snapshot to that path before it renders anything, in text and in
\* structured mode, also when it compares with a baseline.
C19_SavedBeforeRendering ==
    (phase = "reported" /\ options.save # None) =>
        /\ files[Unwrap(options.save)] # NoFile
        /\ \E i \in 1..Len(output) :
               /\ output[i] = Saved(Unwrap(options.save))
               /\ \A j \in 1..(i - 1) : output[j].ev # "println"

\* The symbol a frame of a grouping run was made of.
SymbolOfFrame(frame) ==
    CHOOSE symbol \in GroupingSymbols : GroupingFrame(symbol) = frame

\* The key of a symbol: its whole qualified name, the first two segments of
\* the name (the one segment of a name that has one), or its bare file name.
KeyOfSymbol(symbol, group_by) ==
    LET shown(name) == ReplaceChar(ReplaceChar(name, "<", LSaquo), ">", RSaquo)
    IN  CASE group_by = "Function" -> shown(QualifiedName(symbol.segments))
          [] group_by = "Module" ->
                 shown(IF Len(symbol.segments) >= 2
                       THEN QualifiedName(SubSeq(symbol.segments, 1, 2))
                       ELSE symbol.segments[1])
          [] OTHER -> symbol.file

RECURSIVE SumOfCounts(_)
\* The sum of the counts of the entries of a prepared result.
SumOfCounts(sites) ==
    IF sites = <<>> THEN 0 ELSE Head(sites).count + SumOfCounts(Tail(sites))

\* C21: for a site whose first frame is `name (path/file:line)` the grouping
\* key is the whole qualified name by function, the first two segments of
\* the name by module and the bare file name by file; without filter,
\* minimum and limit the reported counts sum to the sum of the site counts
\* under each of the three granularities.
C21_KeysOfTheThreeGranularities ==
    (phase = "reported" /\ prepared.done) =>
        /\ {prepared.sites[i].name : i \in 1..Len(prepared.sites)}
               = {KeyOfSymbol(SymbolOfFrame(snapshot.allocation_sites[k].frames[1]),
                              options.group_by) :
                     k \in DOMAIN snapshot.allocation_sites}
        /\ SumOfCounts(prepared.sites) = SumCounts(snapshot.allocation_sites)

\* Whether entry a is strictly before entry b in the order of a sort key:
\* the larger count, the larger bytes, or the smaller name.
Precedes(a, b, sort_by) ==
    CASE sort_by = "Count" -> a.count > b.count
      [] sort_by = "Size" -> a.total_bytes > b.total_bytes
      [] OTHER -> StrCmp(a.name, b.name) = -1

\* The groups prepare_sites has after its filters, as entries.
FilteredGroups(snap, opts) ==
    LET grouped == Grouped(snap, opts,
                       CHOOSE order \in IterationOrders(DOMAIN snap.allocation_sites) :
                           TRUE)
    IN  {[name |-> key, count |-> grouped[key].count,
          total_bytes |-> grouped[key].total_bytes] : key \in DOMAIN grouped}

\* An entry without its frames.
Summed(site) ==
    [name |-> site.name, count |-> site.count, total_bytes |-> site.total_bytes]

\* C22: the prepared result is in the order of the configured key, and with a
\* limit N it has at most N entries, which are the first N of that order
\* over all the groups that pass the filters: no group left out is before an
\* entry that is in, and nothing is left out while there is room.
C22_SortedAndLimited ==
    (phase = "reported" /\ options.compare = None) =>
        LET groups == FilteredGroups(snapshot, options)
            kept == {Summed(prepared.sites[i]) : i \in 1..Len(prepared.sites)}
        IN  /\ \A i \in 1..Len(prepared.sites), j \in 1..Len(prepared.sites) :
                   i < j => ~Precedes(prepared.sites[j], prepared.sites[i],
                                      options.sort_by)
            /\ kept \subseteq groups
            /\ Cardinality(kept) = Len(prepared.sites)
            /\ Len(prepared.sites)
                   = IF options.limit # None /\ Unwrap(options.limit) < Cardinality(groups)
                     THEN Unwrap(options.limit)
                     ELSE Cardinality(groups)
            /\ \A out \in groups \ kept : \A in \in kept :
                   ~Precedes(out, in, options.sort_by)

\* Two groups with different counts pass the filters, and the limit of one
\* entry keeps the one with the larger count.
C22_Witness ==
    /\ phase = "reported"
    /\ options.compare = None
    /\ options.sort_by = "Count"
    /\ options.limit = Some(Limit)
    /\ Cardinality(FilteredGroups(snapshot, options)) = 2
    /\ Len(prepared.sites) = 1
    /\ \E g \in FilteredGroups(snapshot, options) : g.count < prepared.sites[1].count

\* A step of thread t.
StepOf(t) == stack'[t] # stack[t]
\* A thread in a call of write_report that found the variable set.
ExportingTo(t) == Exporting(t) /\ stack[t][1].output_path # None

\* C23: write_report with the destination variable set first disables
\* profiling, then takes the snapshot and writes it: no step of the export
\* itself changes a counter or the site table, the snapshot is taken with
\* profiling disabled, profiling is disabled when the export returns and the
\* file it has written is the serialised snapshot; with the variable unset
\* nothing is written and the enabled flag is left as it was.
C23_ExportDisablesFirst ==
    [][\A t \in Threads :
        /\ (ExportingTo(t) /\ StepOf(t)) =>
               /\ counters' = counters
               /\ allocation_sites' = allocation_sites
        /\ (ExportingTo(t) /\ InFunction(t, "get_snapshot")) => ~PROFILING_ACTIVE
        /\ (ExportingTo(t) /\ stack'[t] = <<>>) =>
               /\ ~PROFILING_ACTIVE'
               /\ \/ files' = files
                  \/ \E site_order \in IterationOrders(DOMAIN snapshot.allocation_sites) :
                         files' = [files EXCEPT !["out"] = to_string(snapshot, site_order)]
        /\ (Exporting(t) /\ ~ExportingTo(t) /\ StepOf(t)) =>
               /\ files' = files
               /\ PROFILING_ACTIVE' = PROFILING_ACTIVE
      ]_vars

\* The part of C23 that holds: once write_report has disabled profiling, no
\* step of the export changes a counter or the site table.
C23_NothingCountedOnceDisabled ==
    [][\A t \in Threads :
        (ExportingTo(t) /\ StepOf(t) /\ ~(Depth(t) = 1 /\ Top(t).pc = "var")
           /\ ~(Depth(t) > 1 /\ stack[t][1].pc = "var")) =>
               /\ counters' = counters
               /\ allocation_sites' = allocation_sites
      ]_vars

\* The diagnostics of a snapshot or a baseline that could not be loaded.
LoadFailures ==
    {Eprintln(ParseFailure), Eprintln(ComparisonReadError),
     Eprintln(ComparisonParseError)}
LoadFailed == \E i \in 1..Len(output) : output[i] \in LoadFailures

\* C24: when the exported snapshot or the baseline cannot be read or parsed,
\* the run ends with a diagnostic and a non-zero status, and nothing but the
\* diagnostic is printed: no report or comparison entry.
C24_LoadFailureEndsTheRunWithAnError ==
    (phase \in {"exited 0", "exited 1"} /\ LoadFailed) =>
        /\ phase = "exited 1"
        /\ \A i \in 1..Len(output) : output[i] \in LoadFailures
        /\ ~prepared.done

\* The part of C24 that holds: a failed load prints its diagnostic and nothing
\* else.
C24_NothingPrintedAfterLoadFailure ==
    LoadFailed =>
        /\ \A i \in 1..Len(output) : output[i] \in LoadFailures
        /\ ~prepared.done

\* The names of the members of a JSON object, and the value of one.
MemberNames(obj) == {obj.members[i][1] : i \in 1..Len(obj.members)}
MemberOf(obj, name) ==
    obj.members[CHOOSE i \in 1..Len(obj.members) : obj.members[i][1] = name][2]

\* The document the structured report has printed, parsed.
PrintedDocument == ParseValue(output[Len(output)].text, 1).value

NameFunction == <<"f", "u", "n", "c", "t", "i", "o", "n">>
NameLocation == <<"l", "o", "c", "a", "t", "i", "o", "n">>
NameStackTrace == <<"s", "t", "a", "c", "k", "_", "t", "r", "a", "c", "e">>
NameAllocations == <<"a", "l", "l", "o", "c", "a", "t", "i", "o", "n", "s">>
NameSummary == <<"s", "u", "m", "m", "a", "r", "y">>

\* The members an entry has at a verbosity.
EntryNames(verbosity) ==
    {NameFunction, FieldCount}
        \cup (IF verbosity >= 1 THEN {FieldTotalBytes} ELSE {})
        \cup (IF verbosity >= 2 THEN {NameLocation} ELSE {})
        \cup (IF verbosity >= 3 THEN {NameStackTrace} ELSE {})

\* An entry of the list holds what the prepared site holds.
EntryShows(entry, site, verbosity) ==
    /\ MemberNames(entry) = EntryNames(verbosity)
    /\ MemberOf(entry, NameFunction) = JStr(site.name)
    /\ MemberOf(entry, FieldCount) = JNum(site.count)
    /\ verbosity >= 1 => MemberOf(entry, FieldTotalBytes) = JNum(site.total_bytes)
    /\ verbosity >= 2 => MemberOf(entry, NameLocation) = JStr(site.frames[1])
    /\ verbosity >= 3 =>
           MemberOf(entry, NameStackTrace)
               = JArr([i \in 1..Len(site.frames) |-> JStr(site.frames[i])])

\* The summary holds the five counters of the snapshot.
SummaryShows(summary, snap) ==
    /\ MemberNames(summary) =
           {FieldTotalAllocations, FieldTotalDeallocations, FieldTotalBytesAllocated,
            FieldPeakMemory, FieldCurrentMemory}
    /\ MemberOf(summary, FieldTotalAllocations) = JNum(snap.total_allocations)
    /\ MemberOf(summary, FieldTotalDeallocations) = JNum(snap.total_deallocations)
    /\ MemberOf(summary, FieldTotalBytesAllocated) = JNum(snap.total_bytes_allocated)
    /\ MemberOf(summary, FieldPeakMemory) = JNum(snap.peak_memory)
    /\ MemberOf(summary, FieldCurrentMemory) = JNum(snap.current_memory)

DocumentShows(doc, sites, snap, verbosity) ==
    /\ MemberNames(doc) = {NameAllocations, NameSummary}
    /\ Len(MemberOf(doc, NameAllocations).items) = Len(sites)
    /\ \A i \in 1..Len(sites) :
           EntryShows(MemberOf(doc, NameAllocations).items[i], sites[i], verbosity)
    /\ SummaryShows(MemberOf(doc, NameSummary), snap)

\* C25: in structured-text mode each entry of the ordered allocations list
\* has the key and the count, total_bytes exactly when verbosity >= 1, the
\* first frame exactly when verbosity >= 2 and the frame list exactly when
\* verbosity >= 3; the summary holds the five counters of the snapshot,
\* whatever filter, minimum or limit is set.
C25_EntriesByVerbosity ==
    (phase = "reported" /\ options.format = "Json") =>
        DocumentShows(PrintedDocument, prepared.sites, snapshot, options.verbosity)

\* A report at verbosity 2 of a snapshot of two sites that the limit cuts to
\* one entry.
C25_Witness ==
    /\ phase = "reported"
    /\ options.format = "Json"
    /\ options.verbosity = 2
    /\ options.limit = Some(Limit)
    /\ Cardinality(DOMAIN snapshot.allocation_sites) = 2
    /\ Len(prepared.sites) = 1

\* A counter holds a machine word.
AsWord(n) == n % Modulus

\* The one call of the host program has returned.
HostCallDone(op) ==
    /\ calls = MaxCalls
    /\ \A t \in Threads : stack[t] = <<>>
    /\ returned.op = op

\* Exactly one site has grown by one allocation of s bytes, a new site
\* starting from nothing; no other site has changed.
SiteGrew(old, new, s) ==
    \E key \in DOMAIN new :
        /\ DOMAIN new = DOMAIN old \cup {key}
        /\ \A k \in DOMAIN old \ {key} : new[k] = old[k]
        /\ new[key].count = 1 + (IF key \in DOMAIN old THEN old[key].count ELSE 0)
        /\ new[key].total_bytes =
               s + (IF key \in DOMAIN old THEN old[key].total_bytes ELSE 0)

\* What an allocation of s bytes adds to the counters of the snapshot taken
\* before it.
CountersGrew(s) ==
    /\ total_allocations = AsWord(snapshot.total_allocations + 1)
    /\ total_bytes_allocated = AsWord(snapshot.total_bytes_allocated + s)
    /\ current_memory = AsWord(snapshot.current_memory + s)
    /\ peak_memory = Max(snapshot.peak_memory, current_memory)
    /\ total_deallocations = snapshot.total_deallocations

\* C26: a successful allocate of size s made while profiling is enabled by a
\* thread that is not inside recording adds 1 to total_allocations, s to
\* total_bytes_allocated and to current_memory, raises peak_memory to the new
\* current_memory when that is larger, and adds 1 and s to exactly one site,
\* new or not; no other site and no deallocation counter changes.
C26_AllocationCountedOnce ==
    (HostCallDone("alloc") /\ returned.result = Ptr /\ PROFILING_ACTIVE) =>
        \E s \in Sizes :
            /\ CountersGrew(s)
            /\ SiteGrew(snapshot.allocation_sites, allocation_sites, s)

\* The part of C26 that holds: the counters always grow so, and one site
\* grows unless the table is left as it was.
C26_CountersOfAnAllocation ==
    (HostCallDone("alloc") /\ returned.result = Ptr /\ PROFILING_ACTIVE) =>
        \E s \in Sizes :
            /\ CountersGrew(s)
            /\ \/ SiteGrew(snapshot.allocation_sites, allocation_sites, s)
               \/ allocation_sites = snapshot.allocation_sites

\* What a resize from old_size to new_size adds to the counters of the
\* snapshot taken before it.
CountersResized(old_size, new_size) ==
    /\ total_deallocations = AsWord(snapshot.total_deallocations + 1)
    /\ total_allocations = AsWord(snapshot.total_allocations + 1)
    /\ total_bytes_allocated = AsWord(snapshot.total_bytes_allocated + new_size)
    /\ current_memory =
           AsWord(snapshot.current_memory + new_size + Modulus - old_size)

\* The counters are those of the snapshot taken before the call.
CountersKept ==
    /\ total_allocations = snapshot.total_allocations
    /\ total_deallocations = snapshot.total_deallocations
    /\ total_bytes_allocated = snapshot.total_bytes_allocated
    /\ peak_memory = snapshot.peak_memory
    /\ current_memory = snapshot.current_memory

OutsideAllocator(t) ==
    \A i \in 1..Depth(t) : stack[t][i].fn \notin {"alloc", "dealloc", "realloc"}

\* C28: whenever a thread is outside allocate, deallocate and resize, both of
\* its reentrancy flags are clear, after any calls and with the enabled flag
\* set, clear or flipped during a call; so a successful allocation such a
\* thread makes calls record_allocation, which gets past its reentrancy check
\* when profiling is enabled.
C28_FlagsClearOutsideCalls ==
    /\ [](\A t \in Threads :
             OutsideAllocator(t) => (~IN_ALLOCATOR[t] /\ ~IN_PROFILER[t]))
    /\ [][\A t \in Threads :
            /\ ( /\ OutsideAllocator(t)
                 /\ \E size \in Sizes, backtrace \in Backtraces :
                        alloc(t, size, backtrace, TRUE) )
                   => ( /\ Depth(t)' = Depth(t) + 2
                        /\ Top(t)'.fn = "record_allocation" )
            /\ ( /\ InFrame(t, "record_allocation", "active")
                 /\ \A i \in 1..(Depth(t) - 2) : stack[t][i].fn = "get_snapshot"
                 /\ PROFILING_ACTIVE
                 /\ ra_check_active(t) )
                   => Top(t)'.pc = "total_allocations"
         ]_vars

\* Both calls of the run were allocations that were counted, the enabled flag
\* was cleared during the second, and every thread is outside its calls.
C28_Witness ==
    /\ calls = MaxCalls
    /\ \A t \in Threads : stack[t] = <<>>
    /\ returned.op = "alloc"
    /\ returned.counted_alloc
    /\ total_allocations = MaxCalls
    /\ ~PROFILING_ACTIVE

\* The qualified name of a function with its angle brackets replaced.
CleanedPath(path) == ReplaceChar(ReplaceChar(QualifiedName(path), "<", LSaquo), ">", RSaquo)

\* C29: name cleaning removes only the suffix the compiler generated: the
\* names two builds give one function get the same cleaned name, a name
\* keeps all the `::` segments of the function's qualified name, with only
\* `<` and `>` replaced, and so two functions with different qualified names
\* never get the same cleaned name.
C29_OnlyTheHashSuffixIsRemoved ==
    kept_frames.done =>
        \A a \in FunctionSymbols, b \in FunctionSymbols :
            raw_stack = CleanStack(a, b) =>
                /\ kept_frames.frames = <<CleanedPath(b.path), CleanedPath(a.path)>>
                /\ (a.path # b.path) => kept_frames.frames[1] # kept_frames.frames[2]

\* The part of C29 that holds: the names two builds give one function get
\* the same cleaned name, and a name whose last segment is not an h followed
\* by hex digits only keeps all its segments.
C29_BuildsCollapse ==
    kept_frames.done =>
        \A a \in FunctionSymbols, b \in FunctionSymbols :
            raw_stack = CleanStack(a, b) =>
                /\ (a.path = b.path /\ a.hash # <<>> /\ b.hash # <<>>) =>
                       kept_frames.frames[1] = kept_frames.frames[2]
                /\ a.hash # <<>> => kept_frames.frames[2] = CleanedPath(a.path)
                /\ (a.path[Len(a.path)] \notin {<<"h">>, <<"h", "e", "a", "d">>}
                       \/ Len(a.path) = 1) =>
                       kept_frames.frames[2] = CleanedPath(a.path)

====
